---- MODULE Spec2Model ----
(***************************************************************************)
(* Model of the DeviceFinder.AI backend (raevmood/final-project):          *)
(*   - RateLimiter (src/llm_provider.py): the per-caller sliding-window    *)
(*     ledger, called sequentially (Spec) and from interleaved threads     *)
(*     (SpecConc);                                                         *)
(*   - LLMProvider.generate, the device agents' handle_request pipeline    *)
(*     (src/device_agents.py) and the transport endpoints (src/main.py,    *)
(*     src/chatbot.py) (SpecAgent, SpecApp);                               *)
(*   - BaseAgent._validate_response applied to one argument                *)
(*     (SpecValidate) and the recovery of structured data from one         *)
(*     generator output: _extract_json_from_markdown, _clean_json_text,    *)
(*     safe_json_loads, _validate_response (SpecRecover).                  *)
(*   - one LLMProvider.generate call with its two models (SpecGenerate),   *)
(*     the chat memory (src/utils/memory.py, SpecMemory), and the user     *)
(*     store with the authentication routes (src/user_store.py,            *)
(*     src/auth_routes.py, src/auth_utils.py, SpecUsers).                  *)
(* Python values are tagged records, texts are strings, and json.dumps,    *)
(* json.loads and the regular-expression substitutions are computed        *)
(* character by character.                                                 *)
(* Time is counted in clock ticks, TicksPerSecond ticks to the second, so  *)
(* that the truncation of retry_after to whole seconds is visible.         *)
(***************************************************************************)
EXTENDS Integers, Sequences, FiniteSets, TLC

VARIABLES
    max_requests,    \* RateLimiter.max_requests
    window_minutes,  \* RateLimiter.window_minutes
    user_requests,   \* RateLimiter.user_requests: dict caller -> list of timestamps
    now,             \* the wall clock read by datetime.now(timezone.utc), in ticks
    lastCall,        \* outcome of the last RateLimiter method call
    allowedLog,      \* history: per caller, the times of the checks allowed since its last reset
    callers,         \* the caller identifiers that issue requests in this run
    tpc,             \* per thread: position inside check_rate_limit
    tnow,            \* per thread: local variable now
    tkept,           \* per thread: the list built by the purge comprehension
    tresult,         \* per thread: outcome of its check_rate_limit call
    apc,             \* handle_request: position in the pipeline
    areq,            \* handle_request: the request being handled and its caller
    alocation,       \* handle_request: is the local variable location truthy
    astore,          \* handle_request: what the query_devices call of this request did
    aqueries,        \* handle_request: search queries still to run
    asearch,         \* handle_request: what the get_organic_results calls of this request returned
    aformatted,      \* handle_request: local variable formatted_results
    asource,         \* handle_request: local variable source
    aprompt,         \* handle_request: data source and retrieved information of the final prompt
    atrace,          \* handle_request: collaborator calls made for this request, in order
    aresp,           \* handle_request: the mapping returned
    memory,          \* DeviceFinderMemory.messages per user, oldest first
    search_count,    \* USERS_DB[username]["search_count"] per user
    http,            \* the response the last endpoint call produced
    vin,             \* _validate_response: the argument response
    vout,            \* _validate_response: how the call ended and the value it returned
    rpc,             \* recovery of one generator output: the stage reached
    rtext,           \* recovery: the generator output (llm_output)
    rcleaned,        \* recovery: the text after the stages applied so far
    rparsed,         \* recovery: how safe_json_loads ended and the value it returned
    rvalid,          \* recovery: how _validate_response ended on that value
    gpc,             \* LLMProvider.generate: position inside the call
    gcalls,          \* generate: the model invocations of this call and how each ended
    gresult,         \* generate: how the call ended and the text it returned
    madded,          \* history: per user, the messages added to its memory since the last clear
    users_db,        \* user_store.USERS_DB: dict username -> user record
    user_id_counter, \* user_store._user_id_counter
    tokens,          \* the access tokens issued by POST /auth/login so far
    ulast            \* outcome of the last user-store or authentication call

cfgVars  == <<max_requests, window_minutes, callers>>
thrVars  == <<tpc, tnow, tkept, tresult>>
agVars   == <<apc, areq, alocation, astore, aqueries, asearch, aformatted, asource, aprompt, atrace, aresp>>
vars     == <<max_requests, window_minutes, user_requests, now, lastCall, allowedLog, callers,
              tpc, tnow, tkept, tresult,
              apc, areq, alocation, astore, aqueries, asearch, aformatted, asource, aprompt, atrace,
              aresp,
              memory, search_count, http,
              vin, vout, rpc, rtext, rcleaned, rparsed, rvalid,
              gpc, gcalls, gresult, madded, users_db, user_id_counter, tokens, ulast>>
appVars  == <<memory, search_count, http>>
pureVars == <<vin, vout, rpc, rtext, rcleaned, rparsed, rvalid>>
svcVars  == <<gpc, gcalls, gresult, madded, users_db, user_id_counter, tokens, ulast>>

(***************************************************************************)
(* Bounds of the model                                                     *)
(***************************************************************************)
TicksPerSecond == 2
MaxSeconds     == 62
MaxLimit       == 3
MaxSharedLimit == 1
NumThreads     == 3

Users          == {"1", "2"}
Threads        == 1..NumThreads
ThreadUser     == "1"
WindowChoices  == {1}
MaxTime        == MaxSeconds * TicksPerSecond
\* the clock advances by 10 s or by 15.5 s between two calls
AdvanceSteps   == {10 * TicksPerSecond, (31 * TicksPerSecond) \div 2}

(***************************************************************************)
(* Helpers                                                                 *)
(***************************************************************************)
Max(a, b) == IF a >= b THEN a ELSE b

\* Python's int() on a float: truncation toward zero
IntTrunc(n, d) == IF n >= 0 THEN n \div d ELSE -((-n) \div d)

\* Python's min() over a non-empty list
MinOf(s) == CHOOSE m \in {s[i] : i \in DOMAIN s} : \A j \in DOMAIN s : m <= s[j]

\* {}, dict[k] = v  and  del dict[k]
EmptyDict == [x \in {} |-> <<>>]
Put(d, k, v) == [x \in (DOMAIN d) \cup {k} |-> IF x = k THEN v ELSE d[x]]
Del(d, k)    == [x \in (DOMAIN d) \ {k} |-> d[x]]

\* what the last RateLimiter call was and did: its clock reading (at), its outcome, and for
\* reset_user the number of timestamps it dropped
NoCall == [op |-> "none", user |-> "", result |-> "", retry_after |-> 0, remaining |-> 0,
           at |-> 0, dropped |-> 0]

(***************************************************************************)
(* Python values, json.dumps and json.loads.  A text is a string, read one *)
(* character at a time; the texts of the model hold integers but no        *)
(* fractions or exponents, and of the escapes only \" \\ \/ \n \r \t.      *)
(***************************************************************************)
\* sys.getrecursionlimit(), scaled down: the deepest nesting json.loads descends into
RecursionLimit == 5

\* None, bool, int, str, list, dict (its items in insertion order) and an object json
\* cannot serialise
PyNone      == [t |-> "null"]
PyBool(b)   == [t |-> "bool", b |-> b]
PyInt(n)    == [t |-> "int", n |-> n]
PyStr(s)    == [t |-> "str", s |-> s]
PyList(xs)  == [t |-> "list", xs |-> xs]
PyDict(kvs) == [t |-> "dict", kvs |-> kvs]
PyObject    == [t |-> "object"]
Item(k, x)  == [k |-> k, v |-> x]

\* bool(x)
Truthy(x) ==
    CASE x.t = "null" -> FALSE
      [] x.t = "bool" -> x.b
      [] x.t = "int"  -> x.n /= 0
      [] x.t = "str"  -> x.s /= ""
      [] x.t = "list" -> Len(x.xs) > 0
      [] x.t = "dict" -> Len(x.kvs) > 0
      [] OTHER -> TRUE

\* k in d, d.get(k), d[k] = x
HasKey(d, k) == \E i \in DOMAIN d.kvs : d.kvs[i].k = k
Get(d, k) ==
    IF HasKey(d, k) THEN d.kvs[CHOOSE i \in DOMAIN d.kvs : d.kvs[i].k = k].v ELSE PyNone
SetItem(d, k, x) ==
    IF HasKey(d, k)
    THEN LET at == CHOOSE i \in DOMAIN d.kvs : d.kvs[i].k = k IN
         PyDict(SubSeq(d.kvs, 1, at - 1) \o <<Item(k, x)>> \o SubSeq(d.kvs, at + 1, Len(d.kvs)))
    ELSE PyDict(Append(d.kvs, Item(k, x)))

\* text[i-1] of Python (positions count from 1 here), "" past either end
At(s, i) == IF i >= 1 /\ i <= Len(s) THEN SubSeq(s, i, i) ELSE ""
\* text[i-1:j] of Python: the characters at positions i..j that exist
Slice(s, i, j) == IF i > Len(s) \/ j < i THEN "" ELSE SubSeq(s, i, IF j > Len(s) THEN Len(s) ELSE j)
\* the whitespace of \s, str.strip() and json
Whitespace == {" ", "\t", "\n", "\r"}
IsDigit(c) == c \in {"0", "1", "2", "3", "4", "5", "6", "7", "8", "9"}

\* the first position at or after i that holds no whitespace
RECURSIVE SkipWs(_, _)
SkipWs(s, i) == IF At(s, i) \in Whitespace THEN SkipWs(s, i + 1) ELSE i

\* json.dumps: how one character of a string is written
EscapeCharTwice(c) ==
    CASE c = "\"" -> "\\\\\\\""
      [] c = "\\" -> "\\\\"
      [] OTHER -> c
EscapeChar(c) ==
    CASE c = "\"" -> "\\\""
      [] c = "\\" -> "\\\\"
      [] c = "\n" -> "\\n"
      [] c = "\r" -> "\\r"
      [] c = "\t" -> "\\t"
      [] OTHER -> c

\* json.dumps(x, ensure_ascii=False) with the default separators ", " and ": "; TypeError
\* for a value it cannot serialise
JsonDumps(x) ==
    LET \* the characters of s at positions lo..hi, each written by EscapeChar
        RECURSIVE Escape(_, _, _)
        Escape(s, lo, hi) ==
            IF lo > hi THEN ""
            ELSE IF lo = hi THEN EscapeChar(At(s, lo))
            ELSE Escape(s, lo, (lo + hi) \div 2) \o Escape(s, ((lo + hi) \div 2) + 1, hi)
        RECURSIVE IntText(_)
        IntText(n) ==
            IF n < 0 THEN "-" \o IntText(-n)
            ELSE IF n < 10 THEN At("0123456789", n + 1)
            ELSE IntText(n \div 10) \o At("0123456789", (n % 10) + 1)
        RECURSIVE Serializable(_)
        Serializable(y) ==
            CASE y.t = "object" -> FALSE
              [] y.t = "list" -> \A i \in DOMAIN y.xs : Serializable(y.xs[i])
              [] y.t = "dict" -> \A i \in DOMAIN y.kvs : Serializable(y.kvs[i].v)
              [] OTHER -> TRUE
        RECURSIVE Dumps(_)
        RECURSIVE DumpsItems(_, _)
        RECURSIVE DumpsPairs(_, _)
        Dumps(y) ==
            CASE y.t = "null" -> "null"
              [] y.t = "bool" -> IF y.b THEN "true" ELSE "false"
              [] y.t = "int"  -> IntText(y.n)
              [] y.t = "str"  -> "\"" \o Escape(y.s, 1, Len(y.s)) \o "\""
              [] y.t = "list" -> "[" \o DumpsItems(y.xs, 1) \o "]"
              [] y.t = "dict" -> "{" \o DumpsPairs(y.kvs, 1) \o "}"
        DumpsItems(xs, i) ==
            IF i > Len(xs) THEN ""
            ELSE Dumps(xs[i]) \o (IF i < Len(xs) THEN ", " ELSE "") \o DumpsItems(xs, i + 1)
        DumpsPairs(kvs, i) ==
            IF i > Len(kvs) THEN ""
            ELSE "\"" \o Escape(kvs[i].k, 1, Len(kvs[i].k)) \o "\": " \o Dumps(kvs[i].v)
                 \o (IF i < Len(kvs) THEN ", " ELSE "") \o DumpsPairs(kvs, i + 1)
    IN  IF Serializable(x) THEN [raised |-> "", text |-> Dumps(x)]
        ELSE [raised |-> "TypeError", text |-> ""]

\* the outcome of a parsing step: the value read and the position after it, or the error
\* raised and its position
Parsed(x, p)       == [kind |-> "ok", value |-> x, pos |-> p]
JSONDecodeError(p) == [kind |-> "JSONDecodeError", value |-> PyNone, pos |-> p]
RecursionError(p)  == [kind |-> "RecursionError", value |-> PyNone, pos |-> p]

\* the character an escape sequence \c stands for ("" when \c is no escape)
Unescape(c) ==
    CASE c = "\"" -> "\""
      [] c = "\\" -> "\\"
      [] c = "/"  -> "/"
      [] c = "n"  -> "\n"
      [] c = "r"  -> "\r"
      [] c = "t"  -> "\t"
      [] OTHER -> ""

\* json.loads(s): one value (strict: no raw control character inside a string), whitespace
\* around it, nothing else
JsonLoads(s) ==
    LET \* the first position at or after i that holds a quote, a backslash or a control
        \* character, or lies past the end of the text
        PlainEnd(i) ==
            CHOOSE j \in i..(Len(s) + 1) :
                /\ At(s, j) \in {"", "\"", "\\", "\n", "\r", "\t"}
                /\ \A k \in i..(j - 1) : At(s, k) \notin {"\"", "\\", "\n", "\r", "\t"}
        \* the string whose opening quote stands before position i: the plain characters up
        \* to position p, the next quote, backslash or control character, are taken in one
        \* piece
        RECURSIVE ScanString(_, _)
        RECURSIVE ScanPiece(_, _, _)
        ScanPiece(i, p, acc) ==
            IF At(s, p) \in {"", "\n", "\r", "\t"} THEN JSONDecodeError(p)
            ELSE IF At(s, p) = "\"" THEN Parsed(PyStr(acc \o Slice(s, i, p - 1)), p + 1)
            ELSE IF Unescape(At(s, p + 1)) = "" THEN JSONDecodeError(p)
            ELSE ScanString(p + 2, acc \o Slice(s, i, p - 1) \o Unescape(At(s, p + 1)))
        ScanString(i, acc) == ScanPiece(i, PlainEnd(i), acc)
        \* the digits from position i on
        RECURSIVE ScanDigits(_, _)
        ScanDigits(i, n) ==
            IF IsDigit(At(s, i))
            THEN ScanDigits(i + 1, 10 * n + (CHOOSE d \in 0..9 : At("0123456789", d + 1) = At(s, i)))
            ELSE [value |-> n, pos |-> i]
        \* -?(0|[1-9]\d*)
        ScanNumber(i) ==
            LET j == IF At(s, i) = "-" THEN i + 1 ELSE i
                d == IF At(s, j) = "0" THEN [value |-> 0, pos |-> j + 1] ELSE ScanDigits(j, 0) IN
            IF ~IsDigit(At(s, j)) THEN JSONDecodeError(i)
            ELSE Parsed(PyInt(IF j > i THEN -d.value ELSE d.value), d.pos)
        RECURSIVE ScanValue(_, _)
        RECURSIVE ScanMembers(_, _, _)
        RECURSIVE ScanElements(_, _, _)
        \* the JSON value that starts at position i, inside depth enclosing containers
        ScanValue(i, depth) ==
            LET c == At(s, i) IN
            IF c = "\"" THEN ScanString(i + 1, "")
            ELSE IF c \in {"{", "["}
            THEN IF depth >= RecursionLimit THEN RecursionError(i)
                 ELSE IF At(s, SkipWs(s, i + 1)) = (IF c = "{" THEN "}" ELSE "]")
                 THEN Parsed(IF c = "{" THEN PyDict(<<>>) ELSE PyList(<<>>), SkipWs(s, i + 1) + 1)
                 ELSE IF c = "{" THEN ScanMembers(SkipWs(s, i + 1), depth + 1, PyDict(<<>>))
                 ELSE ScanElements(SkipWs(s, i + 1), depth + 1, <<>>)
            ELSE IF c = "-" \/ IsDigit(c) THEN ScanNumber(i)
            ELSE IF Slice(s, i, i + 3) = "null" THEN Parsed(PyNone, i + 4)
            ELSE IF Slice(s, i, i + 3) = "true" THEN Parsed(PyBool(TRUE), i + 4)
            ELSE IF Slice(s, i, i + 4) = "false" THEN Parsed(PyBool(FALSE), i + 5)
            ELSE JSONDecodeError(i)
        \* the members of an object from the key at position i on; d holds those read so far
        ScanMembers(i, depth, d) ==
            IF At(s, i) /= "\"" THEN JSONDecodeError(i)
            ELSE LET k == ScanString(i + 1, "") IN
                 IF k.kind /= "ok" THEN k
                 ELSE IF At(s, SkipWs(s, k.pos)) /= ":" THEN JSONDecodeError(SkipWs(s, k.pos))
                 ELSE LET x == ScanValue(SkipWs(s, SkipWs(s, k.pos) + 1), depth) IN
                      IF x.kind /= "ok" THEN x
                      ELSE LET e == SkipWs(s, x.pos) IN
                           IF At(s, e) = "}" THEN Parsed(SetItem(d, k.value.s, x.value), e + 1)
                           ELSE IF At(s, e) = ","
                           THEN ScanMembers(SkipWs(s, e + 1), depth, SetItem(d, k.value.s, x.value))
                           ELSE JSONDecodeError(e)
        \* the elements of an array from position i on; xs holds those read so far
        ScanElements(i, depth, xs) ==
            LET x == ScanValue(i, depth) IN
            IF x.kind /= "ok" THEN x
            ELSE LET e == SkipWs(s, x.pos) IN
                 IF At(s, e) = "]" THEN Parsed(PyList(Append(xs, x.value)), e + 1)
                 ELSE IF At(s, e) = ","
                 THEN ScanElements(SkipWs(s, e + 1), depth, Append(xs, x.value))
                 ELSE JSONDecodeError(e)
        top == ScanValue(SkipWs(s, 1), 0)
    IN  IF top.kind = "ok" /\ SkipWs(s, top.pos) <= Len(s)
        THEN JSONDecodeError(SkipWs(s, top.pos))
        ELSE top

(***************************************************************************)
(* BaseAgent._validate_response (src/device_agents.py)                     *)
(***************************************************************************)
\* the most entries of a recommendations list
MaxRecs == 2
\* str(response)[:500]
PreviewChars == 500
\* datetime.utcnow().isoformat() + "Z"
GeneratedAt == "2025-01-01T00:00:00Z"

\* how a call ended: the value returned, or the exception raised
Returned(x) == [raised |-> "", value |-> x]
Raised(e)   == [raised |-> e, value |-> PyNone]

\* str(x): strings in single quotes, or in double quotes when they hold ' and no "
PyRepr(x) ==
    LET RECURSIVE ReprFrom(_, _, _)
        ReprFrom(s, i, q) ==
            IF i > Len(s) THEN ""
            ELSE LET c == At(s, i) IN
                 (CASE c = q -> "\\" \o q
                    [] c = "\\" -> "\\\\"
                    [] c = "\n" -> "\\n"
                    [] c = "\r" -> "\\r"
                    [] c = "\t" -> "\\t"
                    [] OTHER -> c) \o ReprFrom(s, i + 1, q)
        ReprStr(s) ==
            LET q == IF (\E i \in 1..Len(s) : At(s, i) = "'")
                        /\ ~(\E i \in 1..Len(s) : At(s, i) = "\"")
                     THEN "\"" ELSE "'" IN
            q \o ReprFrom(s, 1, q) \o q
        RECURSIVE IntText(_)
        IntText(n) ==
            IF n < 0 THEN "-" \o IntText(-n)
            ELSE IF n < 10 THEN At("0123456789", n + 1)
            ELSE IntText(n \div 10) \o At("0123456789", (n % 10) + 1)
        RECURSIVE Repr(_)
        RECURSIVE ReprItems(_, _)
        RECURSIVE ReprPairs(_, _)
        Repr(y) ==
            CASE y.t = "null" -> "None"
              [] y.t = "bool" -> IF y.b THEN "True" ELSE "False"
              [] y.t = "int"  -> IntText(y.n)
              [] y.t = "str"  -> ReprStr(y.s)
              [] y.t = "list" -> "[" \o ReprItems(y.xs, 1) \o "]"
              [] y.t = "dict" -> "{" \o ReprPairs(y.kvs, 1) \o "}"
              [] OTHER -> "{1}"
        ReprItems(xs, i) ==
            IF i > Len(xs) THEN ""
            ELSE Repr(xs[i]) \o (IF i < Len(xs) THEN ", " ELSE "") \o ReprItems(xs, i + 1)
        ReprPairs(kvs, i) ==
            IF i > Len(kvs) THEN ""
            ELSE ReprStr(kvs[i].k) \o ": " \o Repr(kvs[i].v)
                 \o (IF i < Len(kvs) THEN ", " ELSE "") \o ReprPairs(kvs, i + 1)
    IN  Repr(x)

\* {"generated_at": ..., "status": status}
Metadata(status) ==
    PyDict(<<Item("generated_at", PyStr(GeneratedAt)), Item("status", PyStr(status))>>)

NullResponseNoError ==
    PyDict(<<Item("error", PyStr("")), Item("status", PyStr("failed")),
             Item("recommendations", PyList(<<>>)), Item("metadata", Metadata("failed"))>>)
\* lines 185-193: the response for a None argument
NullResponse ==
    PyDict(<<Item("error", PyStr("Agent produced null response")),
             Item("status", PyStr("failed")),
             Item("recommendations", PyList(<<>>)),
             Item("metadata", Metadata("failed"))>>)

\* lines 249-257: the response when the serialisation round trip raises
RoundTripFailure(response, message) ==
    PyDict(<<Item("error", PyStr("Response validation failed: " \o message)),
             Item("status", PyStr("failed")),
             Item("partial_data", PyStr(Slice(PyRepr(response), 1, PreviewChars))),
             Item("metadata", Metadata("failed"))>>)

\* lines 196-203: the keys recommendations and metadata are added when missing
EnsureKeys(response) ==
    LET r1 == IF HasKey(response, "recommendations") THEN response
              ELSE SetItem(response, "recommendations", PyList(<<>>)) IN
    IF HasKey(r1, "metadata") THEN r1 ELSE SetItem(r1, "metadata", Metadata("partial"))

\* lines 206-210 for a falsy recommendations value (the metadata is a dict)
MarkEmpty(response) ==
    SetItem(SetItem(SetItem(response, "error", PyStr("No recommendations were generated")),
                    "status", PyStr("failed")),
            "metadata", SetItem(Get(response, "metadata"), "status", PyStr("failed")))

\* lines 220-225: rec.get("name") or rec.get("title") or rec.get("build_name") or
\* rec.get("components")
HasIdentifier(rec) ==
    \E k \in {"name", "title", "build_name", "components"} : Truthy(Get(rec, k))
\* line 216 and line 227
ValidRec(rec) == Truthy(rec) /\ rec.t = "dict" /\ HasIdentifier(rec)

\* lines 213-239: a list is filtered, and status "failed" is set when nothing is left
FilterRecs(response) ==
    IF Get(response, "recommendations").t /= "list" THEN response
    ELSE LET valid_recs == SelectSeq(Get(response, "recommendations").xs, ValidRec)
             r1 == SetItem(response, "recommendations", PyList(valid_recs)) IN
         IF Len(valid_recs) > 0 THEN r1
         ELSE SetItem(SetItem(r1, "error", PyStr("No valid recommendations found in response")),
                      "status", PyStr("failed"))

\* lines 243-257: response = json.loads(json.dumps(response, ensure_ascii=False)); any
\* exception is answered with the failure response
RoundTrip(response) ==
    LET json_str == JsonDumps(response) IN
    IF json_str.raised /= ""
    THEN [failed |-> TRUE,
          value |-> RoundTripFailure(response, "Object of type set is not JSON serializable")]
    ELSE LET loaded == JsonLoads(json_str.text) IN
         IF loaded.kind /= "ok"
         THEN [failed |-> TRUE, value |-> RoundTripFailure(response, loaded.kind)]
         ELSE [failed |-> FALSE, value |-> loaded.value]

\* line 260: len(response.get('recommendations', [])) raises TypeError for None and numbers
Sized(x) == x.t \in {"str", "list", "dict"}

\* _validate_response(response)
ValidateResponse(response) ==
    IF response = PyNone THEN Returned(NullResponse)
    ELSE IF response.t /= "dict" THEN Raised("TypeError")
    ELSE LET r1 == EnsureKeys(response) IN
         IF ~Truthy(Get(r1, "recommendations")) /\ Get(r1, "metadata").t /= "dict"
         THEN Raised("TypeError")
         ELSE LET checked == RoundTrip(FilterRecs(IF Truthy(Get(r1, "recommendations"))
                                                  THEN r1 ELSE MarkEmpty(r1))) IN
              IF ~checked.failed /\ ~Sized(Get(checked.value, "recommendations"))
              THEN Raised("TypeError")
              ELSE Returned(checked.value)

(***************************************************************************)
(* The recovery of structured data from generator text: BaseAgent.         *)
(* _extract_json_from_markdown, _clean_json_text and safe_json_loads       *)
(* (src/device_agents.py).  A substitution re.sub(pattern, repl, text) is  *)
(* a scan from the left: where the pattern matches the replacement is      *)
(* written and the scan goes on behind the match, elsewhere the character  *)
(* is copied.                                                              *)
(***************************************************************************)
\* the least and the greatest position of a set of positions, 0 for the empty set
MinPos(S) == IF S = {} THEN 0 ELSE CHOOSE k \in S : \A j \in S : k <= j
MaxPos(S) == IF S = {} THEN 0 ELSE CHOOSE k \in S : \A j \in S : k >= j

\* text.strip()
Strip(s) ==
    LET first == MinPos({k \in 1..Len(s) : At(s, k) \notin Whitespace})
        last  == MaxPos({k \in 1..Len(s) : At(s, k) \notin Whitespace}) IN
    IF first = 0 THEN "" ELSE SubSeq(s, first, last)

\* the grave accent of a markdown fence: a string of this module cannot hold that
\* character, and the texts here write ~ for it
Backtick == "~"

\* _extract_json_from_markdown: the body of the first fence (three grave accents, an
\* optional "json") when it looks like an object, else the span from the first { to the
\* last }, else the stripped text
ExtractJsonFromMarkdown(text) ==
    LET Fence(k)  == Slice(text, k, k + 2) = Backtick \o Backtick \o Backtick
        open      == MinPos({k \in 1..Len(text) : Fence(k)})
        body      == SkipWs(text, IF Slice(text, open + 3, open + 6) = "json"
                                  THEN open + 7 ELSE open + 3)
        close     == IF open = 0 THEN 0 ELSE MinPos({k \in body..Len(text) : Fence(k)})
        candidate == IF close = 0 THEN "" ELSE Strip(Slice(text, body, close - 1))
        lbrace    == MinPos({k \in 1..Len(text) : At(text, k) = "{"})
        rbrace    == MaxPos({k \in 1..Len(text) : At(text, k) = "}"}) IN
    IF close /= 0 /\ At(candidate, 1) = "{" /\ At(candidate, Len(candidate)) = "}"
    THEN candidate
    ELSE IF lbrace /= 0 /\ rbrace > lbrace THEN SubSeq(text, lbrace, rbrace)
    ELSE Strip(text)

KeepTrailingCommas(text) == text
\* re.sub(r",\s*([\]}])", r"\1", text)
StripTrailingCommas(text) ==
    LET RECURSIVE Sub(_)
        Sub(i) ==
            IF i > Len(text) THEN ""
            ELSE IF At(text, i) = "," /\ At(text, SkipWs(text, i + 1)) \in {"]", "}"}
            THEN At(text, SkipWs(text, i + 1)) \o Sub(SkipWs(text, i + 1) + 1)
            ELSE At(text, i) \o Sub(i + 1)
    IN  Sub(1)

\* re.sub(r'(\d)"(?=[^:,\}\]])', r'\1\\"', text)
EscapeInchMarks(text) ==
    LET RECURSIVE Sub(_)
        Sub(i) ==
            IF i > Len(text) THEN ""
            ELSE IF /\ IsDigit(At(text, i)) /\ At(text, i + 1) = "\""
                    /\ At(text, i + 2) \notin {"", ":", ",", "}", "]"}
            THEN At(text, i) \o "\\\"" \o Sub(i + 2)
            ELSE At(text, i) \o Sub(i + 1)
    IN  Sub(1)

\* "url"\s*:\s*"https?:// matched at position i: the position behind it, else 0
UrlPrefixEnd(s, i) ==
    LET colon  == SkipWs(s, i + 5)
        quote  == SkipWs(s, colon + 1)
        scheme == IF At(s, quote + 5) = "s" THEN quote + 6 ELSE quote + 5 IN
    IF /\ Slice(s, i, i + 4) = "\"url\"" /\ At(s, colon) = ":" /\ At(s, quote) = "\""
       /\ Slice(s, quote + 1, quote + 4) = "http" /\ Slice(s, scheme, scheme + 2) = "://"
    THEN scheme + 3 ELSE 0

\* the position behind the run [^"\n]* that starts at position u
UrlLimit(s, u) ==
    LET stop == MinPos({k \in u..Len(s) : At(s, k) \in {"\"", "\n"}}) IN
    IF stop = 0 THEN Len(s) + 1 ELSE stop

\* the last position of the whitespace run starting at p that holds one of the characters
\* ends (0 when there is none): where \s*[ends] stops
LastInWs(s, p, ends) == MaxPos({k \in p..(SkipWs(s, p) - 1) : At(s, k) \in ends})

\* FIX 1: re.sub(r'("url"\s*:\s*")(https?://[^"\n]+?)(/)\s*\n', r'\1\2\3"\n', text)
CloseUrlAfterSlash(text) ==
    LET Slash(i) ==
            LET u == UrlPrefixEnd(text, i) IN
            IF u = 0 THEN 0
            ELSE MinPos({k \in (u + 1)..(UrlLimit(text, u) - 1) :
                            At(text, k) = "/" /\ LastInWs(text, k + 1, {"\n"}) /= 0})
        RECURSIVE Sub(_)
        Sub(i) ==
            IF i > Len(text) THEN ""
            ELSE IF Slash(i) /= 0
            THEN SubSeq(text, i, Slash(i)) \o "\"\n"
                 \o Sub(LastInWs(text, Slash(i) + 1, {"\n"}) + 1)
            ELSE At(text, i) \o Sub(i + 1)
    IN  Sub(1)

\* FIX 2: re.sub(r'("url"\s*:\s*"https?://[^"\n]+)(\s*[\r\n]+\s*[},\]])', r'\1"\2', text)
CloseUrlBeforeBracket(text) ==
    LET Cut(i) ==
            LET u == UrlPrefixEnd(text, i) IN
            IF u = 0 THEN 0
            ELSE MaxPos({g \in (u + 1)..UrlLimit(text, u) :
                            /\ LastInWs(text, g, {"\r", "\n"}) /= 0
                            /\ At(text, SkipWs(text, g)) \in {"}", ",", "]"}})
        RECURSIVE Sub(_)
        Sub(i) ==
            IF i > Len(text) THEN ""
            ELSE IF Cut(i) /= 0
            THEN SubSeq(text, i, Cut(i) - 1) \o "\""
                 \o SubSeq(text, Cut(i), SkipWs(text, Cut(i))) \o Sub(SkipWs(text, Cut(i)) + 1)
            ELSE At(text, i) \o Sub(i + 1)
    IN  Sub(1)

\* [\w\d\s]
IsWordOrSpace(c) ==
    \/ c \in Whitespace
    \/ c /= "" /\ \E k \in 1..63 :
          At("abcdefghijklmnopqrstuvwxyzABCDEFGHIJKLMNOPQRSTUVWXYZ0123456789_", k) = c

\* FIX 3: re.sub(r'([\w\d\s]+)\\"(\s*[,\n\r])', r'\1"\2', text)
UnescapeClosingQuotes(text) ==
    LET RECURSIVE RunEnd(_)
        RunEnd(i) == IF IsWordOrSpace(At(text, i)) THEN RunEnd(i + 1) ELSE i
        \* the last position of the match that starts at i, else 0
        End(i) ==
            LET e == RunEnd(i) IN
            IF e = i \/ Slice(text, e, e + 1) /= "\\\"" THEN 0
            ELSE IF At(text, SkipWs(text, e + 2)) = "," THEN SkipWs(text, e + 2)
            ELSE LastInWs(text, e + 2, {"\n", "\r"})
        RECURSIVE Sub(_)
        Sub(i) ==
            IF i > Len(text) THEN ""
            ELSE IF End(i) /= 0
            THEN SubSeq(text, i, RunEnd(i) - 1) \o "\""
                 \o Slice(text, RunEnd(i) + 2, End(i)) \o Sub(End(i) + 1)
            ELSE At(text, i) \o Sub(i + 1)
    IN  Sub(1)

\* FIX 4: re.sub(r'\\"(\s*$)', r'"\1', text, flags=re.MULTILINE)
UnescapeQuoteAtLineEnd(text) ==
    LET RECURSIVE Sub(_)
        Sub(i) ==
            IF i > Len(text) THEN ""
            ELSE IF /\ Slice(text, i, i + 1) = "\\\""
                    /\ \/ SkipWs(text, i + 2) > Len(text)
                       \/ LastInWs(text, i + 2, {"\n"}) /= 0
            THEN "\"" \o Sub(i + 2)
            ELSE At(text, i) \o Sub(i + 1)
    IN  Sub(1)

\* FIX 5: re.sub(r'(?<=": ")([^"]*?)\\n([^"]*?)(?=")', ...replace('\\n', ' '), text), and
\* the same for \\t: c is "n" or "t"
BlankLiteralEscape(text, c) ==
    LET NextQuote(p) == MinPos({k \in p..Len(text) : At(text, k) = "\""})
        Matches(p) ==
            /\ p > 4 /\ Slice(text, p - 4, p - 1) = "\": \""
            /\ NextQuote(p) /= 0
            /\ \E k \in p..(NextQuote(p) - 2) : Slice(text, k, k + 1) = "\\" \o c
        RECURSIVE Blank(_, _)
        Blank(i, q) ==
            IF i >= q THEN ""
            ELSE IF i + 1 < q /\ Slice(text, i, i + 1) = "\\" \o c THEN " " \o Blank(i + 2, q)
            ELSE At(text, i) \o Blank(i + 1, q)
        RECURSIVE Sub(_)
        Sub(i) ==
            IF i > Len(text) THEN ""
            ELSE IF Matches(i) THEN Blank(i, NextQuote(i)) \o Sub(NextQuote(i))
            ELSE At(text, i) \o Sub(i + 1)
    IN  Sub(1)

\* _clean_json_text: line 54 replaces the quote characters by themselves, then the
\* substitutions of lines 57-86 in their order, then strip()
CleanJsonText(text) ==
    Strip(BlankLiteralEscape(BlankLiteralEscape(
        UnescapeQuoteAtLineEnd(UnescapeClosingQuotes(CloseUrlBeforeBracket(CloseUrlAfterSlash(
            EscapeInchMarks(StripTrailingCommas(text)))))), "n"), "t"))

\* re.search(r'(\{.*\}|\[.*\])', text, re.DOTALL): the match, else the text
JsonSpan(text) ==
    LET Closer(k) == MaxPos({j \in (k + 1)..Len(text) :
                                At(text, j) = (IF At(text, k) = "{" THEN "}" ELSE "]")})
        start == MinPos({k \in 1..Len(text) : At(text, k) \in {"{", "["} /\ Closer(k) /= 0}) IN
    IF start = 0 THEN text ELSE SubSeq(text, start, Closer(start))

\* Fix 3 of safe_json_loads:
\* re.sub(r'("url"\s*:\s*"https?://[^"\n]+)(\s*[\r\n])', r'\1"\2', fixed)
CloseUrlBeforeNewline(text) ==
    LET Cut(i) ==
            LET u == UrlPrefixEnd(text, i) IN
            IF u = 0 THEN 0
            ELSE MaxPos({g \in (u + 1)..UrlLimit(text, u) :
                            LastInWs(text, g, {"\r", "\n"}) /= 0})
        RECURSIVE Sub(_)
        Sub(i) ==
            IF i > Len(text) THEN ""
            ELSE IF Cut(i) /= 0
            THEN SubSeq(text, i, Cut(i) - 1) \o "\""
                 \o SubSeq(text, Cut(i), LastInWs(text, Cut(i), {"\r", "\n"}))
                 \o Sub(LastInWs(text, Cut(i), {"\r", "\n"}) + 1)
            ELSE At(text, i) \o Sub(i + 1)
    IN  Sub(1)

\* Fix 4 of safe_json_loads: re.sub(r'\\[nt]', ' ', line) on every line
BlankEscapes(text) ==
    LET RECURSIVE Sub(_)
        Sub(i) ==
            IF i > Len(text) THEN ""
            ELSE IF At(text, i) = "\\" /\ At(text, i + 1) \in {"n", "t"} THEN " " \o Sub(i + 2)
            ELSE At(text, i) \o Sub(i + 1)
    IN  Sub(1)

\* Fix 5 of safe_json_loads: a line with an odd number of unescaped quotes that does not
\* end with a comma and holds "url" and https:// gets a closing quote
BalanceUrlQuotes(text) ==
    LET Holds(line, sub) == \E k \in 1..Len(line) : Slice(line, k, k + Len(sub) - 1) = sub
        RStrip(line) == Slice(line, 1, MaxPos({k \in 1..Len(line) : At(line, k) \notin Whitespace}))
        Quotes(line) == Cardinality({k \in 1..Len(line) :
                                        At(line, k) = "\"" /\ At(line, k - 1) /= "\\"})
        Fixed(line) ==
            IF /\ RStrip(line) /= ""
               /\ Quotes(line) % 2 = 1
               /\ At(RStrip(line), Len(RStrip(line))) /= ","
               /\ Holds(line, "\"url\"") /\ Holds(line, "https://")
            THEN RStrip(line) \o "\"" ELSE line
        \* the lines from position i on, each fixed, joined by "\n" again
        RECURSIVE Lines(_)
        Lines(i) ==
            LET nl == MinPos({k \in i..Len(text) : At(text, k) = "\n"}) IN
            IF nl = 0 THEN Fixed(Slice(text, i, Len(text)))
            ELSE Fixed(Slice(text, i, nl - 1)) \o "\n" \o Lines(nl + 1)
    IN  Lines(1)

\* safe_json_loads(text): None for an empty text; the strict parse of the first {...} or
\* [...] span; after a JSONDecodeError the parse of the repaired text, None when that raises
\* JSONDecodeError too.  `except Exception` covers the first parse only: an exception other
\* than JSONDecodeError raised while the first handler runs leaves the function.
SafeJsonLoads(text) ==
    LET \* lines 158-173: the parse of the repaired text
        Second(r) ==
            IF r.kind = "ok" THEN Returned(r.value)
            ELSE IF r.kind = "JSONDecodeError" THEN Returned(PyNone)
            ELSE Raised(r.kind)
        \* lines 107-155 and 175-178: the first parse, and the repairs after a JSONDecodeError
        First(r, span) ==
            IF r.kind = "ok" THEN Returned(r.value)
            ELSE IF r.kind /= "JSONDecodeError" THEN Returned(PyNone)
            ELSE Second(JsonLoads(BalanceUrlQuotes(BlankEscapes(CloseUrlBeforeNewline(
                     EscapeInchMarks(StripTrailingCommas(span)))))))
    IN  IF Strip(text) = "" THEN Returned(PyNone)
        ELSE First(JsonLoads(JsonSpan(text)), JsonSpan(text))

\* how a call of _validate_response or safe_json_loads stands: not made yet, or ended
NotCalled == [called |-> FALSE, raised |-> "", value |-> PyNone]
Called(r) == [called |-> TRUE, raised |-> r.raised, value |-> r.value]

\* no validator call and no recovery under way
InitValidateIdle ==
    /\ vin = PyNone
    /\ vout = NotCalled

InitRecoverIdle ==
    /\ rpc = "idle"
    /\ rtext = ""
    /\ rcleaned = ""
    /\ rparsed = NotCalled
    /\ rvalid = NotCalled

\* no generate call under way, no message added, the module state of user_store.py after
\* import (USERS_DB = {}, _user_id_counter = 1), no token issued
NoUserCall == [op |-> "none", username |-> "", raised |-> "", status |-> 0,
               id |-> 0, token_user_id |-> 0]
InitServicesIdle ==
    /\ gpc = "idle"
    /\ gcalls = <<>>
    /\ gresult = NotCalled
    /\ madded = [u \in Users |-> <<>>]
    /\ users_db = EmptyDict
    /\ user_id_counter = 1
    /\ tokens = {}
    /\ ulast = NoUserCall

(***************************************************************************)
(* RateLimiter                                                             *)
(***************************************************************************)
\* timedelta(minutes=self.window_minutes), in ticks
WindowTicks == window_minutes * 60 * TicksPerSecond

\* [req_time for req_time in reqs if req_time > window_start]
Purge(reqs, t) == SelectSeq(reqs, LAMBDA r : r > t - WindowTicks)

LimitReachedOffByOne(count) == count > max_requests
\* if current_count >= self.max_requests
LimitReached(count) == count >= max_requests

RetryAfterNewest(reqs, t) ==
    Max(IntTrunc(reqs[Len(reqs)] + WindowTicks - t, TicksPerSecond), 1)
\* retry_after = int((oldest_request + window - now).total_seconds()); max(retry_after, 1)
RetryAfter(reqs, t) == Max(IntTrunc(MinOf(reqs) + WindowTicks - t, TicksPerSecond), 1)

\* the caller's list as check_rate_limit sees it after lines 52-53
EntryOf(d, u) == IF u \in DOMAIN d THEN d[u] ELSE <<>>

\* would check_rate_limit(u) at time t allow, given the caller's list?
WouldAllow(reqs, t) == ~LimitReached(Len(Purge(reqs, t)))

RemainingNoPurge(d, u, t) ==
    IF u \notin DOMAIN d THEN max_requests
    ELSE Max(0, max_requests - Len(d[u]))
\* get_remaining_requests: the value returned
Remaining(d, u, t) ==
    IF u \notin DOMAIN d THEN max_requests
    ELSE Max(0, max_requests - Len(Purge(d[u], t)))

ResetKeepsEntry(d, u) == d
ResetClearsAll(d, u) == IF u \in DOMAIN d THEN EmptyDict ELSE d
\* reset_user: the ledger afterwards
ResetLedger(d, u) == IF u \in DOMAIN d THEN Del(d, u) ELSE d

CheckOutcomeRecording(d, u, t) ==
    LET kept == Purge(EntryOf(d, u), t) IN
    IF LimitReached(Len(kept))
    THEN IF kept = <<>>
         THEN [ledger |-> Put(d, u, kept), result |-> "ValueError", retry_after |-> 0]
         ELSE [ledger |-> Put(d, u, Append(kept, t)), result |-> "rejected",
               retry_after |-> RetryAfter(kept, t)]
    ELSE [ledger |-> Put(d, u, Append(kept, t)), result |-> "allowed", retry_after |-> 0]
\* check_rate_limit(u) run at clock value t on ledger d: the ledger afterwards and
\* what the call does (returns True, raises RateLimitExceeded, or min([]) raises)
CheckOutcome(d, u, t) ==
    LET kept == Purge(EntryOf(d, u), t) IN
    IF LimitReached(Len(kept))
    THEN IF kept = <<>>
         THEN [ledger |-> Put(d, u, kept), result |-> "ValueError", retry_after |-> 0]
         ELSE [ledger |-> Put(d, u, kept), result |-> "rejected",
               retry_after |-> RetryAfter(kept, t)]
    ELSE [ledger |-> Put(d, u, Append(kept, t)), result |-> "allowed", retry_after |-> 0]

\* a sequential call of check_rate_limit(u)
CheckRateLimit(u) ==
    LET out == CheckOutcome(user_requests, u, now) IN
    /\ user_requests' = out.ledger
    /\ lastCall' = [NoCall EXCEPT !.op = "check", !.user = u, !.at = now,
                                  !.result = out.result, !.retry_after = out.retry_after]
    /\ allowedLog' = IF out.result = "allowed"
                     THEN [allowedLog EXCEPT ![u] = Append(@, now)]
                     ELSE allowedLog
    /\ UNCHANGED <<now, cfgVars, pureVars, svcVars, thrVars, agVars, appVars>>

\* get_remaining_requests(u)
GetRemainingRequests(u) ==
    /\ lastCall' = [NoCall EXCEPT !.op = "remaining", !.user = u, !.at = now,
                                  !.remaining = Remaining(user_requests, u, now)]
    /\ UNCHANGED <<user_requests, now, allowedLog, cfgVars, pureVars, svcVars, thrVars, agVars, appVars>>

\* reset_user(u)
ResetUser(u) ==
    /\ user_requests' = ResetLedger(user_requests, u)
    /\ lastCall' = [NoCall EXCEPT !.op = "reset", !.user = u, !.at = now,
                                  !.result = IF u \in DOMAIN user_requests
                                             THEN "removed" ELSE "noop",
                                  !.dropped = Len(EntryOf(user_requests, u))]
    /\ allowedLog' = [allowedLog EXCEPT ![u] = <<>>]
    /\ UNCHANGED <<now, cfgVars, pureVars, svcVars, thrVars, agVars, appVars>>

\* time passes between two calls
Tick ==
    /\ \E d \in AdvanceSteps :
          /\ now + d <= MaxTime
          /\ now' = now + d
    /\ UNCHANGED <<user_requests, lastCall, allowedLog, cfgVars, pureVars, svcVars, thrVars, agVars, appVars>>

\* RateLimiter.__init__
InitLimiter ==
    /\ \/ callers = {ThreadUser} /\ max_requests \in 1..MaxLimit
       \/ callers = Users /\ max_requests \in 1..MaxSharedLimit
    /\ window_minutes \in WindowChoices
    /\ user_requests = EmptyDict
    /\ now = 0
    /\ lastCall = NoCall
    /\ allowedLog = [u \in Users |-> <<>>]

InitThreadsIdle ==
    /\ tpc = [t \in Threads |-> "idle"]
    /\ tnow = [t \in Threads |-> 0]
    /\ tkept = [t \in Threads |-> <<>>]
    /\ tresult = [t \in Threads |-> ""]


(***************************************************************************)
(* LLMProvider.generate and the device agents (src/device_agents.py)       *)
(***************************************************************************)
\* user_id=None (also any falsy user_id)
NoUser == ""

\* the six agents built by the factory functions
Agents == {"phone", "laptop", "tablet", "earpiece", "prebuilt_pc", "pc_builder"}

\* create_pc_builder_agent registers no vector_db tool; the five others do
HasVectorDb(a) == a /= "pc_builder"

\* top_k=5 of query_devices, num_results=5 of get_organic_results
TopK       == 5
NumResults == 5
\* the most search queries the PC builder's decision lists
MaxQueries == 2

\* query_devices: not called, raised, or returned hits candidates
NotQueried     == [called |-> FALSE, raised |-> FALSE, hits |-> 0]
StoreRaised    == [called |-> TRUE, raised |-> TRUE, hits |-> 0]
StoreHits(n)   == [called |-> TRUE, raised |-> FALSE, hits |-> n]
StoreOutcomes  == {StoreRaised} \cup {StoreHits(n) : n \in 0..TopK}

\* LLMProvider.generate(message, user_id): the rate-limit check (only when user_id is
\* truthy), then the model calls.  The ledger afterwards, how the call ends and the
\* collaborator calls it made.
Generate(d, uid, t) ==
    IF uid = NoUser
    THEN [ledger |-> d, result |-> "ok", check |-> "none", retry_after |-> 0,
          events |-> <<"generate">>]
    ELSE LET out == CheckOutcome(d, uid, t) IN
         IF out.result = "allowed"
         THEN [ledger |-> out.ledger, result |-> "ok", check |-> "allowed", retry_after |-> 0,
               events |-> <<"check", "generate">>]
         ELSE [ledger |-> out.ledger,
               result |-> IF out.result = "rejected" THEN "RateLimitExceeded" ELSE "ValueError",
               check |-> out.result, retry_after |-> out.retry_after, events |-> <<"check">>]

\* the record of the check_rate_limit call a generate call made for caller u
CheckMade(g, u, t) ==
    [NoCall EXCEPT !.op = "check", !.user = u, !.at = t, !.result = g.check,
                   !.retry_after = g.retry_after]

\* the history of allowed checks after a generate call for caller u
LogAfter(g, u, t) ==
    IF g.check = "allowed" THEN [allowedLog EXCEPT ![u] = Append(@, t)] ELSE allowedLog

\* BaseAgent.contact: self.llm.generate(prompt), so generate's user_id keeps its default None
ContactUserId(req) == NoUser

\* if vector_results and len(vector_results) >= 3
StoreSufficientStrict(n) == n > 3
StoreSufficientNever(n) == FALSE
StoreSufficient(n) == n > 0 /\ n >= 3

\* SerperSearchTool.search: the request fails (RequestException) or answers with hits
\* organic results; asearch counts the results all searches of the request returned
NoSearch       == [called |-> FALSE, failed |-> FALSE, hits |-> 0]
SearchFailed   == [called |-> TRUE, failed |-> TRUE, hits |-> 0]
SearchHits(n)  == [called |-> TRUE, failed |-> FALSE, hits |-> n]
SearchOutcomes == {SearchFailed} \cup {SearchHits(n) : n \in {0, 1, NumResults}}

\* SerperSearchTool.get_organic_results: [] on an error, else the organic results
GetOrganicResults(o) == IF o.failed THEN 0 ELSE o.hits

\* SerperSearchTool.format_results
FormatResults(hits) == IF hits = 0 THEN "No results found." ELSE "search_text"

NoRequest == [agent |-> "", user |-> "", has_location |-> FALSE, over_quota |-> FALSE]
NoPrompt  == [built |-> FALSE, source |-> "None", info |-> "None"]
NoResp    == [status |-> "", error |-> ""]

InitAgentIdle ==
    /\ apc = "idle"
    /\ areq = NoRequest
    /\ alocation = FALSE
    /\ astore = NotQueried
    /\ aqueries = 0
    /\ asearch = NoSearch
    /\ aformatted = "None"
    /\ asource = "None"
    /\ aprompt = NoPrompt
    /\ atrace = <<>>
    /\ aresp = NoResp

\* no chat history files, fresh user records, no request served yet
NoHttp == [endpoint |-> "", user |-> "", status |-> 0, body |-> "",
           rate_limited |-> FALSE, retry_after |-> 0]

InitApp ==
    /\ memory = [u \in Users |-> <<>>]
    /\ search_count = [u \in Users |-> 0]
    /\ http = NoHttp

Init ==
    /\ InitLimiter /\ InitThreadsIdle /\ InitAgentIdle /\ InitApp
    /\ InitValidateIdle /\ InitRecoverIdle /\ InitServicesIdle

\* the variables of the rate limiter, the agents and the endpoints, and their state when only
\* a pure function is exercised
sysVars == <<user_requests, now, lastCall, allowedLog, cfgVars, thrVars, agVars, appVars, svcVars>>
InitQuiet ==
    /\ InitLimiter /\ callers = {ThreadUser} /\ max_requests = 1
    /\ InitThreadsIdle /\ InitAgentIdle /\ InitApp /\ InitServicesIdle

Next ==
    \/ Tick
    \/ \E u \in callers : CheckRateLimit(u)
    \/ \E u \in callers : GetRemainingRequests(u)
    \/ \E u \in callers : ResetUser(u)

Spec == Init /\ [][Next]_vars

\* a call of handle_request(user_request) made on behalf of caller u; the request mapping
\* may or may not carry a location
AgentStart(a, u, hasLoc) ==
    /\ apc = "idle"
    /\ apc' = "extract"
    /\ areq' = [agent |-> a, user |-> u, has_location |-> hasLoc,
                over_quota |-> ~WouldAllow(EntryOf(user_requests, u), now)]
    /\ alocation' = FALSE
    /\ astore' = NotQueried
    /\ aqueries' = 0
    /\ asearch' = NoSearch
    /\ aformatted' = "None"
    /\ asource' = "None"
    /\ aprompt' = NoPrompt
    /\ atrace' = <<>>
    /\ aresp' = NoResp
    /\ UNCHANGED <<user_requests, now, lastCall, allowedLog, cfgVars, pureVars, svcVars, thrVars, appVars>>

\* except Exception as e: return {"error": str(e), "status": "failed", ...}
AgentFails(err) ==
    /\ aresp' = [status |-> "failed", error |-> err]
    /\ apc' = "done"

\* Step 1: params_raw = self.contact(extraction_prompt), parse, pick location
AgentExtract ==
    /\ apc = "extract"
    /\ LET g == Generate(user_requests, ContactUserId(areq), now) IN
       /\ user_requests' = g.ledger
       /\ atrace' = atrace \o g.events
       /\ IF g.result /= "ok"
          THEN /\ AgentFails(g.result)
               /\ UNCHANGED alocation
          ELSE /\ \E kind \in {"location", "empty_location", "no_location_key", "unparseable"} :
                    alocation' = CASE kind = "location" -> TRUE
                                   [] kind = "empty_location" -> FALSE
                                   [] OTHER -> areq.has_location
               /\ apc' = IF HasVectorDb(areq.agent) THEN "store" ELSE "decide"
               /\ UNCHANGED aresp
    /\ UNCHANGED <<now, lastCall, allowedLog, cfgVars, pureVars, svcVars, thrVars, appVars,
                   areq, astore, aqueries, asearch, aformatted, asource, aprompt>>

\* Step 2: if vector_tool and location: vector_results = vector_tool.query_devices(...)
AgentStoreQuery ==
    /\ apc = "store"
    /\ IF alocation
       THEN \E r \in StoreOutcomes :
               /\ atrace' = Append(atrace, "store_query")
               /\ astore' = r
               /\ IF r.raised
                  THEN /\ AgentFails("store_error")
                       /\ UNCHANGED <<aformatted, asource>>
                  ELSE IF StoreSufficient(r.hits)
                       THEN /\ aformatted' = "store_json"
                            /\ asource' = "Vector Database"
                            /\ apc' = "final"
                            /\ UNCHANGED aresp
                       ELSE /\ apc' = "decide"
                            /\ UNCHANGED <<aformatted, asource, aresp>>
       ELSE /\ apc' = "decide"
            /\ UNCHANGED <<atrace, astore, aformatted, asource, aresp>>
    /\ UNCHANGED <<user_requests, now, lastCall, allowedLog, cfgVars, pureVars, svcVars, thrVars, appVars,
                   areq, alocation, aqueries, asearch, aprompt>>

\* Step 3, first half: decision_raw = self.contact(search_prompt), parse the search query
\* (the PC builder's decision lists several queries, or one fallback query)
AgentDecide ==
    /\ apc = "decide"
    /\ LET g == Generate(user_requests, ContactUserId(areq), now) IN
       /\ user_requests' = g.ledger
       /\ atrace' = atrace \o g.events
       /\ IF g.result /= "ok"
          THEN /\ AgentFails(g.result)
               /\ UNCHANGED aqueries
          ELSE /\ apc' = "search"
               /\ \E n \in 0..MaxQueries :
                     aqueries' = IF HasVectorDb(areq.agent) THEN 1 ELSE n
               /\ UNCHANGED aresp
    /\ UNCHANGED <<now, lastCall, allowedLog, cfgVars, pureVars, svcVars, thrVars, appVars,
                   areq, alocation, astore, asearch, aformatted, asource, aprompt>>

\* Step 3, second half: search_tool.get_organic_results and format_results.  The PC
\* builder runs every query and drops the results (formatted_results and source stay None).
AgentSearch ==
    /\ apc = "search"
    /\ IF aqueries = 0
       THEN /\ apc' = "final"
            /\ UNCHANGED <<aqueries, asearch, atrace, aformatted, asource>>
       ELSE /\ \E o \in SearchOutcomes :
                 /\ asearch' = [called |-> TRUE, failed |-> o.failed,
                                hits |-> asearch.hits + GetOrganicResults(o)]
                 /\ IF HasVectorDb(areq.agent)
                    THEN /\ aformatted' = FormatResults(GetOrganicResults(o))
                         /\ asource' = "Web Search"
                    ELSE UNCHANGED <<aformatted, asource>>
            /\ atrace' = Append(atrace, "search")
            /\ aqueries' = aqueries - 1
            /\ apc' = IF aqueries = 1 THEN "final" ELSE "search"
    /\ UNCHANGED <<user_requests, now, lastCall, allowedLog, cfgVars, pureVars, svcVars, thrVars, appVars,
                   areq, alocation, astore, aprompt, aresp>>

\* Step 4: build the final prompt, llm_output = self.contact(final_prompt), parse, validate
AgentFinal ==
    /\ apc = "final"
    /\ aprompt' = [built |-> TRUE, source |-> asource, info |-> aformatted]
    /\ LET g == Generate(user_requests, ContactUserId(areq), now) IN
       /\ user_requests' = g.ledger
       /\ atrace' = atrace \o g.events
       /\ IF g.result /= "ok"
          THEN AgentFails(g.result)
          ELSE /\ apc' = "done"
               /\ \E kind \in {"recommendations", "no_recommendations", "unparseable"} :
                    aresp' = CASE kind = "recommendations" -> [status |-> "from_model", error |-> ""]
                               [] kind = "no_recommendations" ->
                                    [status |-> "failed", error |-> "No recommendations"]
                               [] OTHER -> [status |-> "failed", error |-> "null response"]
    /\ UNCHANGED <<now, lastCall, allowedLog, cfgVars, pureVars, svcVars, thrVars, appVars,
                   areq, alocation, astore, aqueries, asearch, aformatted, asource>>

\* handle_request has returned; the agent is ready for the next request
AgentReturn ==
    /\ apc = "done"
    /\ apc' = "idle"
    /\ UNCHANGED <<user_requests, now, lastCall, allowedLog, cfgVars, pureVars, svcVars, thrVars, appVars,
                   areq, alocation, astore, aqueries, asearch, aformatted, asource, aprompt, atrace,
                   aresp>>

\* LLMProvider.generate(message, user_id=u) called with a caller id, as chatbot.py:101 and
\* the module's own test block do: the only calls that reach the rate limiter
GenerateFor(u) ==
    /\ apc = "idle"
    /\ LET g == Generate(user_requests, u, now) IN
       /\ user_requests' = g.ledger
       /\ lastCall' = CheckMade(g, u, now)
       /\ allowedLog' = LogAfter(g, u, now)
    /\ UNCHANGED <<now, cfgVars, pureVars, svcVars, thrVars, agVars, appVars>>

NextAgent ==
    \/ \E u \in callers : GenerateFor(u)
    \/ \E a \in Agents, u \in callers, hasLoc \in BOOLEAN : AgentStart(a, u, hasLoc)
    \/ AgentExtract
    \/ AgentStoreQuery
    \/ AgentDecide
    \/ AgentSearch
    \/ AgentFinal
    \/ AgentReturn

SpecAgent == Init /\ [][NextAgent]_vars

(***************************************************************************)
(* The transport endpoints (src/main.py) and the chatbot (src/chatbot.py)  *)
(***************************************************************************)
\* DeviceFinderMemory(session_id=user_id, max_messages=6)
MaxMessages == 6
\* the most searches counted per user
MaxSearches == 2

AddMessageKeepOldest(msgs, type) ==
    LET all == Append(msgs, type) IN
    IF Len(all) > MaxMessages THEN SubSeq(all, 1, MaxMessages) ELSE all
\* DeviceFinderMemory.add_message: append, keep the last max_messages
AddMessage(msgs, type) ==
    LET all == Append(msgs, type) IN
    IF Len(all) > MaxMessages
    THEN SubSeq(all, Len(all) - MaxMessages + 1, Len(all))
    ELSE all

\* chatbot.py:111-113: drop the last message if it is the user's
PopLastHuman(msgs) ==
    IF Len(msgs) > 0 /\ msgs[Len(msgs)] = "human"
    THEN SubSeq(msgs, 1, Len(msgs) - 1)
    ELSE msgs

\* DeviceFinderChatbot.get_response: add the user message, generate with
\* user_id=str(self.user_id); every exception raised inside the try block, RateLimitExceeded
\* included, is caught by `except Exception` and answered with the apology text
GetResponse(msgs, d, u, t) ==
    LET g == Generate(d, u, t)
        m1 == AddMessage(msgs, "human") IN
    IF g.result = "ok"
    THEN [messages |-> AddMessage(m1, "ai"), ledger |-> g.ledger, raised |-> "", gen |-> g,
          reply |-> "model_reply", rate_limited |-> FALSE, retry_after |-> 0]
    ELSE [messages |-> PopLastHuman(m1), ledger |-> g.ledger, raised |-> "", gen |-> g,
          reply |-> "apology", rate_limited |-> g.result = "RateLimitExceeded",
          retry_after |-> g.retry_after]

\* POST /chat: chat_with_devicefinder
Chat(u) ==
    LET r == GetResponse(memory[u], user_requests, u, now) IN
    /\ memory' = [memory EXCEPT ![u] = r.messages]
    /\ user_requests' = r.ledger
    /\ lastCall' = CheckMade(r.gen, u, now)
    /\ allowedLog' = LogAfter(r.gen, u, now)
    /\ http' = IF r.raised = "RateLimitExceeded"
               THEN [endpoint |-> "chat", user |-> u, status |-> 429, body |-> "detail",
                     rate_limited |-> r.rate_limited, retry_after |-> r.retry_after]
               ELSE IF r.raised /= ""
               THEN [endpoint |-> "chat", user |-> u, status |-> 500, body |-> "detail",
                     rate_limited |-> r.rate_limited, retry_after |-> r.retry_after]
               ELSE [endpoint |-> "chat", user |-> u, status |-> 200, body |-> r.reply,
                     rate_limited |-> r.rate_limited, retry_after |-> r.retry_after]
    /\ UNCHANGED <<now, cfgVars, pureVars, svcVars, thrVars, agVars, search_count>>

\* DELETE /chat/clear_history
ClearHistory(u) ==
    /\ memory' = [memory EXCEPT ![u] = <<>>]
    /\ http' = [NoHttp EXCEPT !.endpoint = "clear_history", !.user = u, !.status = 200,
                              !.body = "cleared"]
    /\ UNCHANGED <<user_requests, now, lastCall, allowedLog, cfgVars, pureVars, svcVars, thrVars, agVars,
                   search_count>>

\* POST /find_phone and its five siblings: count the search, then call
\* agent.handle_request(request.dict(...), user_id=...).  handle_request takes no user_id
\* parameter, so the call raises TypeError, answered by `except Exception` with status 500.
FindDevice(a, u) ==
    /\ search_count[u] < MaxSearches
    /\ search_count' = [search_count EXCEPT ![u] = @ + 1]
    /\ http' = [NoHttp EXCEPT !.endpoint = a, !.user = u, !.status = 500, !.body = "detail"]
    /\ UNCHANGED <<user_requests, now, lastCall, allowedLog, cfgVars, pureVars, svcVars, thrVars, agVars, memory>>

NextApp ==
    \/ \E u \in callers : Chat(u)
    \/ \E u \in callers : ClearHistory(u)
    \/ \E a \in Agents, u \in callers : FindDevice(a, u)

SpecApp == Init /\ [][NextApp]_vars

(***************************************************************************)
(* check_rate_limit run by several threads for the same caller.  The code  *)
(* takes no lock, so the statements of two calls may interleave; each      *)
(* action below is one statement of lines 48-76.                           *)
(***************************************************************************)
\* now = datetime.now(timezone.utc); window_start = now - window
T_Begin(t) ==
    /\ tpc[t] = "idle"
    /\ tnow' = [tnow EXCEPT ![t] = now]
    /\ tpc' = [tpc EXCEPT ![t] = "ensure"]
    /\ UNCHANGED <<user_requests, now, lastCall, allowedLog, cfgVars, pureVars, svcVars, tkept, tresult, agVars, appVars>>

\* if user_id not in self.user_requests: self.user_requests[user_id] = []
T_Ensure(t) ==
    /\ tpc[t] = "ensure"
    /\ user_requests' = IF ThreadUser \in DOMAIN user_requests
                        THEN user_requests
                        ELSE Put(user_requests, ThreadUser, <<>>)
    /\ tpc' = [tpc EXCEPT ![t] = "filter"]
    /\ UNCHANGED <<now, lastCall, allowedLog, cfgVars, pureVars, svcVars, tnow, tkept, tresult, agVars, appVars>>

\* the list comprehension of lines 56-59 builds the purged list ...
T_Filter(t) ==
    /\ tpc[t] = "filter"
    /\ tkept' = [tkept EXCEPT ![t] = Purge(user_requests[ThreadUser], tnow[t])]
    /\ tpc' = [tpc EXCEPT ![t] = "store"]
    /\ UNCHANGED <<user_requests, now, lastCall, allowedLog, cfgVars, pureVars, svcVars, tnow, tresult, agVars, appVars>>

\* ... and the assignment stores it as the caller's entry
T_Store(t) ==
    /\ tpc[t] = "store"
    /\ user_requests' = Put(user_requests, ThreadUser, tkept[t])
    /\ tpc' = [tpc EXCEPT ![t] = "count"]
    /\ UNCHANGED <<now, lastCall, allowedLog, cfgVars, pureVars, svcVars, tnow, tkept, tresult, agVars, appVars>>

\* current_count = len(...); if current_count >= self.max_requests: raise RateLimitExceeded
T_Count(t) ==
    /\ tpc[t] = "count"
    /\ IF LimitReached(Len(user_requests[ThreadUser]))
       THEN /\ tresult' = [tresult EXCEPT ![t] =
                              IF user_requests[ThreadUser] = <<>> THEN "ValueError"
                              ELSE "rejected"]
            /\ tpc' = [tpc EXCEPT ![t] = "done"]
       ELSE /\ tpc' = [tpc EXCEPT ![t] = "append"]
            /\ UNCHANGED tresult
    /\ UNCHANGED <<user_requests, now, lastCall, allowedLog, cfgVars, pureVars, svcVars, tnow, tkept, agVars, appVars>>

\* self.user_requests[user_id].append(now); return True
T_Append(t) ==
    /\ tpc[t] = "append"
    /\ user_requests' = Put(user_requests, ThreadUser,
                            Append(user_requests[ThreadUser], tnow[t]))
    /\ tresult' = [tresult EXCEPT ![t] = "allowed"]
    /\ tpc' = [tpc EXCEPT ![t] = "done"]
    /\ UNCHANGED <<now, lastCall, allowedLog, cfgVars, pureVars, svcVars, tnow, tkept, agVars, appVars>>

InitConc ==
    /\ callers = {ThreadUser}
    /\ max_requests \in 1..MaxLimit
    /\ window_minutes \in WindowChoices
    /\ user_requests = EmptyDict
    /\ now = 0
    /\ lastCall = NoCall
    /\ allowedLog = [u \in Users |-> <<>>]
    /\ InitThreadsIdle
    /\ InitAgentIdle
    /\ InitApp
    /\ InitValidateIdle
    /\ InitRecoverIdle
    /\ InitServicesIdle

NextConc ==
    \/ \E t \in Threads : T_Begin(t)
    \/ \E t \in Threads : T_Ensure(t)
    \/ \E t \in Threads : T_Filter(t)
    \/ \E t \in Threads : T_Store(t)
    \/ \E t \in Threads : T_Count(t)
    \/ \E t \in Threads : T_Append(t)

SpecConc == InitConc /\ [][NextConc]_vars

(***************************************************************************)
(* _validate_response applied to one argument (SpecValidate)               *)
(***************************************************************************)
\* the sequences over S of length at most n
RECURSIVE SeqsUpTo(_, _)
SeqsUpTo(S, n) ==
    IF n = 0 THEN {<<>>}
    ELSE SeqsUpTo(S, n - 1) \cup {Append(p, a) : p \in SeqsUpTo(S, n - 1), a \in S}

\* entries of a recommendations list: with an identifying field, without one, not a
\* mapping, with an empty identifying field, with a quote inside a string, a PC build, and
\* one that holds a value json cannot serialise
RecKinds ==
    { PyDict(<<Item("name", PyStr("X"))>>),
      PyDict(<<Item("foo", PyStr("bar"))>>),
      PyStr("X"),
      PyDict(<<Item("name", PyStr(""))>>),
      PyDict(<<Item("title", PyStr("27\" TV"))>>),
      PyDict(<<Item("build_name", PyStr("B")), Item("components", PyList(<<PyStr("cpu")>>))>>),
      PyDict(<<Item("name", PyStr("X")), Item("raw", PyObject)>>) }

\* the arguments: None, values that are no mapping, and mappings that hold or lack each of
\* the keys status, recommendations (a list or not) and metadata
ValidateInputs ==
    LET Absent == [t |-> "absent"]
        StatusChoices   == {Absent, PyStr("ok"), PyStr("failed")}
        RecsChoices     == {Absent, PyNone, PyStr("abc"), PyDict(<<Item("name", PyStr("X"))>>)}
                               \cup {PyList(xs) : xs \in SeqsUpTo(RecKinds, MaxRecs)}
        MetadataChoices == {Absent, PyNone, PyDict(<<Item("status", PyStr("ok"))>>)}
        Present(item)   == item.v /= Absent
    IN  {PyNone, PyStr("not json at all {{{"), PyList(<<PyInt(1)>>)}
            \cup {PyDict(SelectSeq(<<Item("recommendations", recs), Item("metadata", md),
                                     Item("status", st)>>, Present)) :
                     st \in StatusChoices, recs \in RecsChoices, md \in MetadataChoices}

InitValidate ==
    /\ InitQuiet
    /\ InitRecoverIdle
    /\ vin \in ValidateInputs
    /\ vout = NotCalled

\* result = self._validate_response(vin)
ValidateCall ==
    /\ ~vout.called
    /\ vout' = Called(ValidateResponse(vin))
    /\ UNCHANGED <<vin, rpc, rtext, rcleaned, rparsed, rvalid, sysVars>>

SpecValidate == InitValidate /\ [][ValidateCall]_vars

(***************************************************************************)
(* The recovery of one generator output (SpecRecover): lines 354-356 of    *)
(* handle_request apply _extract_json_from_markdown, _clean_json_text,     *)
(* safe_json_loads and _validate_response in this order; safe_json_loads   *)
(* is a static method and is also applied to the output as it is.          *)
(***************************************************************************)
\* the text `Sure! Here's your data: {"a": 1,}`: prose before an object with a trailing comma
ProseWrapped == "Sure! Here's your data: {\"a\": 1,}"
\* a text without any JSON in it
Garbage == "not json at all {{{"
\* an object whose first parse fails on a literal \n between two members and whose repaired
\* text nests arrays as deep as the interpreter's recursion limit
DeepAfterRepair ==
    LET RECURSIVE Repeat(_, _)
        Repeat(s, n) == IF n = 0 THEN "" ELSE s \o Repeat(s, n - 1) IN
    "{\"a\": 1,\\n\"b\": " \o Repeat("[", RecursionLimit) \o Repeat("]", RecursionLimit) \o "}"

\* a complete object followed by prose and a second object
TwoObjects == "{\"a\": 1} or {\"b\": 2}"

\* the generator outputs: short bodies, bare and inside prose or a markdown fence, and
\* longer objects that need the repairs of the url, escape and inch-mark rules
RecoverTexts ==
    LET fence  == Backtick \o Backtick \o Backtick
        bodies == { "", "{\"a\": 1,}", "{\"a\": 1}", Garbage, "\"" \o Garbage \o "\"",
                    "{\"a\": \"1\" }", "{\"k1\" : 2}", "{\"a\": \",}\"}", "[1, 2,]",
                    "{\"a\": 1,,}" } IN
    UNION {{ b, "Data: " \o b, fence \o "json\n" \o b \o "\n" \o fence,
             "R:\n" \o fence \o b \o fence \o " ok" } : b \in bodies}
    \cup { ProseWrapped,
           "{\"recommendations\": [{\"name\": \"X\"}]}",
           "{\"name\": \"27\" TV\", \"url\": \"https://a/\n}",
           "{\"q\": \"under 200\\\",\n \"d\": \"a\\nb\"}",
           "{\"url\": \"https://a.b/c\n}",
           DeepAfterRepair, TwoObjects }

InitRecover ==
    /\ rtext \in RecoverTexts
    /\ rpc = "start"
    /\ rcleaned = ""
    /\ rparsed = NotCalled
    /\ rvalid = NotCalled
    /\ InitValidateIdle
    /\ InitQuiet

\* line 354, inner call: _extract_json_from_markdown(llm_output)
RecoverExtract ==
    /\ rpc = "start"
    /\ rcleaned' = ExtractJsonFromMarkdown(rtext)
    /\ rpc' = "extracted"
    /\ UNCHANGED <<vin, vout, rtext, rparsed, rvalid, sysVars>>

\* line 354, outer call: _clean_json_text(...)
RecoverClean ==
    /\ rpc = "extracted"
    /\ rcleaned' = CleanJsonText(rcleaned)
    /\ rpc' = "cleaned"
    /\ UNCHANGED <<vin, vout, rtext, rparsed, rvalid, sysVars>>

\* line 355: result = self.safe_json_loads(cleaned)
RecoverLoad ==
    /\ rpc = "cleaned"
    /\ rparsed' = Called(SafeJsonLoads(rcleaned))
    /\ rpc' = "parsed"
    /\ UNCHANGED <<vin, vout, rtext, rcleaned, rvalid, sysVars>>

\* line 356: return self._validate_response(result), reached when line 355 returned
RecoverValidate ==
    /\ rpc = "parsed"
    /\ rparsed.raised = ""
    /\ rvalid' = Called(ValidateResponse(rparsed.value))
    /\ rpc' = "done"
    /\ UNCHANGED <<vin, vout, rtext, rcleaned, rparsed, sysVars>>

\* BaseAgent.safe_json_loads(text) on the generator output as it is
RecoverLoadRaw ==
    /\ rpc = "start"
    /\ rparsed' = Called(SafeJsonLoads(rtext))
    /\ rpc' = "loaded"
    /\ UNCHANGED <<vin, vout, rtext, rcleaned, rvalid, sysVars>>

NextRecover ==
    \/ RecoverExtract
    \/ RecoverClean
    \/ RecoverLoad
    \/ RecoverValidate
    \/ RecoverLoadRaw

SpecRecover == InitRecover /\ [][NextRecover]_vars

(***************************************************************************)
(* One LLMProvider.generate call, statement by statement (SpecGenerate):   *)
(* the rate-limit check of lines 157-158, main_model.invoke and            *)
(* backup_model.invoke.  A model's invoke ends with a response that has    *)
(* content, a response whose content is empty, a falsy response, or an     *)
(* exception.                                                              *)
(***************************************************************************)
InvokeOutcomes == {"content", "empty", "none", "raised"}

\* lines 157-158: if user_id: self.rate_limiter.check_rate_limit(user_id); a rejection
\* leaves generate as RateLimitExceeded before any model is invoked
GenBegin(u) ==
    /\ gpc \in {"idle", "done"}
    /\ LET g == Generate(user_requests, u, now) IN
       /\ user_requests' = g.ledger
       /\ lastCall' = IF u = NoUser THEN lastCall ELSE CheckMade(g, u, now)
       /\ allowedLog' = LogAfter(g, u, now)
       /\ gpc' = IF g.result = "ok" THEN "main" ELSE "done"
       /\ gresult' = IF g.result = "ok" THEN NotCalled ELSE Called(Raised(g.result))
    /\ gcalls' = <<>>
    /\ UNCHANGED <<now, cfgVars, pureVars, thrVars, agVars, appVars,
                   madded, users_db, user_id_counter, tokens, ulast>>

\* lines 162-171: response = self.main_model.invoke(message); content is returned, an
\* empty or falsy response raises ValueError, and `except Exception` turns to the backup
GenMain(o) ==
    /\ gpc = "main"
    /\ gcalls' = Append(gcalls, [model |-> "main", outcome |-> o])
    /\ gpc' = IF o = "content" THEN "done" ELSE "backup"
    /\ gresult' = IF o = "content" THEN Called(Returned(PyStr("text"))) ELSE gresult
    /\ UNCHANGED <<madded, users_db, user_id_counter, tokens, ulast, pureVars,
                   user_requests, now, lastCall, allowedLog, cfgVars, thrVars, agVars, appVars>>

GenBackupReraises(o) ==
    /\ gpc = "backup"
    /\ gcalls' = Append(gcalls, [model |-> "backup", outcome |-> o])
    /\ gpc' = "done"
    /\ gresult' = IF o = "content" THEN Called(Returned(PyStr("text")))
                  ELSE IF o = "raised" THEN Called(Raised("Exception"))
                  ELSE Called(Returned(PyStr("")))
    /\ UNCHANGED <<madded, users_db, user_id_counter, tokens, ulast, pureVars,
                   user_requests, now, lastCall, allowedLog, cfgVars, thrVars, agVars, appVars>>
\* lines 174-184: response = self.backup_model.invoke(message); content is returned, every
\* other outcome ends in `except Exception as e_backup: return ""`
GenBackup(o) ==
    /\ gpc = "backup"
    /\ gcalls' = Append(gcalls, [model |-> "backup", outcome |-> o])
    /\ gpc' = "done"
    /\ gresult' = IF o = "content" THEN Called(Returned(PyStr("text")))
                  ELSE Called(Returned(PyStr("")))
    /\ UNCHANGED <<madded, users_db, user_id_counter, tokens, ulast, pureVars,
                   user_requests, now, lastCall, allowedLog, cfgVars, thrVars, agVars, appVars>>

NextGenerate ==
    \/ \E u \in callers \cup {NoUser} : GenBegin(u)
    \/ \E o \in InvokeOutcomes : GenMain(o)
    \/ \E o \in InvokeOutcomes : GenBackup(o)

SpecGenerate == Init /\ [][NextGenerate]_vars

(***************************************************************************)
(* One DeviceFinderMemory object per user (src/utils/memory.py), driven by *)
(* add_user_message, add_ai_message and clear_memory (SpecMemory).  Here a *)
(* message is its type and its content; max_messages is the 6 of           *)
(* chatbot.py:27.                                                          *)
(***************************************************************************)
\* the most messages added between two clears
MaxAdds == 7

\* the chat memory or the user store exercised alone: nothing else is under way
InitServices ==
    /\ InitQuiet
    /\ InitValidateIdle
    /\ InitRecoverIdle

\* add_user_message(content) and add_ai_message(content): add_message(HumanMessage(...))
\* and add_message(AIMessage(...))
MemAdd(u, type, content) ==
    /\ Len(madded[u]) < MaxAdds
    /\ memory' = [memory EXCEPT ![u] = AddMessage(@, [type |-> type, content |-> content])]
    /\ madded' = [madded EXCEPT ![u] = Append(@, [type |-> type, content |-> content])]
    /\ UNCHANGED <<gpc, gcalls, gresult, users_db, user_id_counter, tokens, ulast, pureVars,
                   user_requests, now, lastCall, allowedLog, cfgVars, thrVars, agVars,
                   search_count, http>>

\* clear_memory
MemClear(u) ==
    /\ memory' = [memory EXCEPT ![u] = <<>>]
    /\ madded' = [madded EXCEPT ![u] = <<>>]
    /\ UNCHANGED <<gpc, gcalls, gresult, users_db, user_id_counter, tokens, ulast, pureVars,
                   user_requests, now, lastCall, allowedLog, cfgVars, thrVars, agVars,
                   search_count, http>>

NextMemory ==
    \/ \E u \in callers, c \in {"a", "b"} : MemAdd(u, "human", c)
    \/ \E u \in callers, c \in {"a", "b"} : MemAdd(u, "ai", c)
    \/ \E u \in callers : MemClear(u)

SpecMemory == InitServices /\ [][NextMemory]_vars

(***************************************************************************)
(* The user store (src/user_store.py) and the authentication routes        *)
(* (src/auth_routes.py, src/auth_utils.py), called one at a time           *)
(* (SpecUsers).  A bcrypt hash is the pair <<"bcrypt", password>>; an      *)
(* access token is its payload {sub, user_id}, and only the payloads       *)
(* signed by create_access_token decode; tokens are presented before they  *)
(* expire.  The password "long" stands for one of more than 72 bytes,      *)
(* which bcrypt may refuse.                                                *)
(***************************************************************************)
\* the most accounts ever created
MaxUserId == 3

CreateUserReusingIds(db, counter, username, email, password, hashRaises) ==
    IF username \in DOMAIN db
    THEN [db |-> db, counter |-> counter, raised |-> "Username already exists", id |-> 0]
    ELSE IF \E k \in DOMAIN db : db[k].email = email
    THEN [db |-> db, counter |-> counter, raised |-> "Email already exists", id |-> 0]
    ELSE IF password = "long" /\ hashRaises
    THEN [db |-> db, counter |-> counter, raised |-> "Password too long", id |-> 0]
    ELSE [db |-> Put(db, username,
                     [id |-> Cardinality(DOMAIN db) + 1, username |-> username, email |-> email,
                      hashed_password |-> <<"bcrypt", password>>, is_active |-> TRUE]),
          counter |-> counter + 1, raised |-> "", id |-> Cardinality(DOMAIN db) + 1]
\* UserStore.create_user on table db and id counter: the table and the counter afterwards,
\* the ValueError raised ("" when none) and the id given
CreateUser(db, counter, username, email, password, hashRaises) ==
    IF username \in DOMAIN db
    THEN [db |-> db, counter |-> counter, raised |-> "Username already exists", id |-> 0]
    ELSE IF \E k \in DOMAIN db : db[k].email = email
    THEN [db |-> db, counter |-> counter, raised |-> "Email already exists", id |-> 0]
    ELSE IF password = "long" /\ hashRaises
    THEN [db |-> db, counter |-> counter, raised |-> "Password too long", id |-> 0]
    ELSE [db |-> Put(db, username,
                     [id |-> counter, username |-> username, email |-> email,
                      hashed_password |-> <<"bcrypt", password>>, is_active |-> TRUE]),
          counter |-> counter + 1, raised |-> "", id |-> counter]

\* POST /auth/register: create_user; ValueError is answered with status 400
Register(username, email, password, hashRaises) ==
    LET c == CreateUser(users_db, user_id_counter, username, email, password, hashRaises) IN
    /\ c.raised = "" => user_id_counter <= MaxUserId
    /\ users_db' = c.db
    /\ user_id_counter' = c.counter
    /\ ulast' = [NoUserCall EXCEPT !.op = "create_user", !.username = username,
                                   !.raised = c.raised, !.id = c.id,
                                   !.status = IF c.raised = "" THEN 201 ELSE 400]
    /\ UNCHANGED <<tokens, gpc, gcalls, gresult, madded, pureVars,
                   user_requests, now, lastCall, allowedLog, cfgVars, thrVars, agVars, appVars>>

\* POST /auth/login: authenticate_user, then create_access_token(data={"sub": username,
\* "user_id": id})
Login(username, password) ==
    /\ IF username \in DOMAIN users_db
          /\ users_db[username].hashed_password = <<"bcrypt", password>>
       THEN /\ tokens' = tokens \cup {[sub |-> users_db[username].username,
                                       user_id |-> users_db[username].id]}
            /\ ulast' = [NoUserCall EXCEPT !.op = "login", !.username = username,
                                           !.status = 200, !.id = users_db[username].id]
       ELSE /\ tokens' = tokens
            /\ ulast' = [NoUserCall EXCEPT !.op = "login", !.username = username,
                                           !.status = 401]
    /\ UNCHANGED <<users_db, user_id_counter, gpc, gcalls, gresult, madded, pureVars,
                   user_requests, now, lastCall, allowedLog, cfgVars, thrVars, agVars, appVars>>

\* UserStore.delete_user; status 200 stands for the returned True, 404 for False
DeleteUser(username) ==
    /\ users_db' = IF username \in DOMAIN users_db THEN Del(users_db, username) ELSE users_db
    /\ ulast' = [NoUserCall EXCEPT !.op = "delete_user", !.username = username,
                                   !.status = IF username \in DOMAIN users_db THEN 200 ELSE 404]
    /\ UNCHANGED <<user_id_counter, tokens, gpc, gcalls, gresult, madded, pureVars,
                   user_requests, now, lastCall, allowedLog, cfgVars, thrVars, agVars, appVars>>

\* get_current_user on the bearer token tok: verify_token decodes the payload (None for a
\* token the server did not sign), the user is looked up by token_data.username
GetCurrentUser(tok) ==
    /\ ulast' = IF tok \notin tokens \/ tok.sub \notin DOMAIN users_db
                THEN [NoUserCall EXCEPT !.op = "get_current_user", !.status = 401,
                                        !.token_user_id = tok.user_id]
                ELSE IF ~users_db[tok.sub].is_active
                THEN [NoUserCall EXCEPT !.op = "get_current_user", !.status = 403,
                                        !.token_user_id = tok.user_id]
                ELSE [NoUserCall EXCEPT !.op = "get_current_user", !.status = 200,
                                        !.username = users_db[tok.sub].username,
                                        !.id = users_db[tok.sub].id,
                                        !.token_user_id = tok.user_id]
    /\ UNCHANGED <<users_db, user_id_counter, tokens, gpc, gcalls, gresult, madded, pureVars,
                   user_requests, now, lastCall, allowedLog, cfgVars, thrVars, agVars, appVars>>

NextUsers ==
    \/ \E n \in {"ann", "bob"}, e \in {"a@x.org", "b@x.org"}, p \in {"secret12", "long"},
          hashRaises \in BOOLEAN : Register(n, e, p, hashRaises)
    \/ \E n \in {"ann", "bob"}, p \in {"secret12", "long"} : Login(n, p)
    \/ \E n \in {"ann", "bob"} : DeleteUser(n)
    \/ \E tok \in tokens \cup {[sub |-> "ann", user_id |-> 0]} : GetCurrentUser(tok)

SpecUsers == InitServices /\ [][NextUsers]_vars

(***************************************************************************)
(* Properties of the sequential rate limiter (Spec)                        *)
(***************************************************************************)
\* number of entries of s inside the half-open window (t - window, t]
InWindow(s, t) == Cardinality({i \in DOMAIN s : s[i] > t - WindowTicks /\ s[i] <= t})

\* C1: for one caller and sequential checks at non-decreasing times, every window of the
\* configured length (half-open, as the purge test req_time > now - window defines it)
\* holds at most max_requests allowed requests, and the caller's ledger never holds more
\* than max_requests timestamps.
C1_SlidingWindowBound ==
    \A u \in Users :
        /\ u \in DOMAIN user_requests => Len(user_requests[u]) <= max_requests
        /\ \A i \in DOMAIN allowedLog[u] :
              InWindow(allowedLog[u], allowedLog[u][i]) <= max_requests

\* a caller was admitted more often than max_requests in total, its ledger is full again
\* and an older timestamp has slid out of the window
C1_Witness ==
    \E u \in Users :
        /\ u \in DOMAIN user_requests
        /\ Len(allowedLog[u]) > max_requests
        /\ Len(user_requests[u]) = max_requests
        /\ lastCall.op = "check" /\ lastCall.user = u /\ lastCall.result = "allowed"

\* time, in ticks, from the rejected call until the oldest surviving timestamp leaves the window
TimeToExpiry == MinOf(user_requests[lastCall.user]) + WindowTicks - lastCall.at

Rejected == lastCall.op = "check" /\ lastCall.result = "rejected"

C4_RemainingReadOnly ==
    [][lastCall'.op = "remaining" =>
          /\ user_requests' = user_requests
          /\ lastCall'.remaining =
                Max(0, max_requests
                         - InWindow(EntryOf(user_requests, lastCall'.user), lastCall'.at))]_vars

\* remaining was asked for a caller whose stored list still holds an expired timestamp
C4_Witness ==
    /\ lastCall.op = "remaining"
    /\ lastCall.user \in DOMAIN user_requests
    /\ lastCall.remaining > 0
    /\ Len(Purge(user_requests[lastCall.user], lastCall.at)) < Len(user_requests[lastCall.user])

\* C5: reset_user(c) removes c's entry: right afterwards get_remaining_requests(c) is
\* max_requests and the next check_rate_limit(c) is allowed; resetting an unknown caller
\* changes nothing.
C5_ResetClearsEntry ==
    [][/\ lastCall'.op = "reset" =>
            /\ lastCall'.user \notin DOMAIN user_requests'
            /\ Remaining(user_requests', lastCall'.user, now') = max_requests
            /\ CheckOutcome(user_requests', lastCall'.user, now').result = "allowed"
            /\ lastCall'.user \notin DOMAIN user_requests => user_requests' = user_requests
       /\ (lastCall.op = "reset" /\ lastCall'.op = "check" /\ lastCall'.user = lastCall.user)
            => lastCall'.result = "allowed"]_vars

\* a caller whose ledger was full has just been reset
C5_Witness ==
    /\ lastCall.op = "reset"
    /\ lastCall.result = "removed"
    /\ lastCall.dropped = max_requests

\* C6: the caller id is the only partition key: a call for caller A never changes caller
\* B's entry, and the outcome of a check for B is the one B's own entry alone determines.
C6_CallerIsolation ==
    [][/\ \A b \in Users : b /= lastCall'.user =>
            /\ b \in DOMAIN user_requests' <=> b \in DOMAIN user_requests
            /\ b \in DOMAIN user_requests => user_requests'[b] = user_requests[b]
       /\ (lastCall'.op = "check" /\ lastCall' /= lastCall) =>
            lastCall'.result =
               CheckOutcome(Put(EmptyDict, lastCall'.user,
                                EntryOf(user_requests, lastCall'.user)),
                            lastCall'.user, lastCall'.at).result]_vars

\* caller "2" is admitted while caller "1" sits at its limit
C6_Witness ==
    /\ callers = Users
    /\ lastCall.op = "check" /\ lastCall.user = "2" /\ lastCall.result = "allowed"
    /\ "1" \in DOMAIN user_requests
    /\ Len(Purge(user_requests["1"], now)) = max_requests

\* C25: a rejected check_rate_limit records nothing: the caller's list after the rejection
\* is its list before with the expired timestamps purged, and at every later time (up to
\* one window ahead, when both lists have expired) a check would be allowed after the
\* rejection exactly when it would have been allowed without it.
C25_RejectionNotRecorded ==
    [][(now' = now /\ lastCall'.op = "check" /\ lastCall'.result = "rejected")
          => LET u == lastCall'.user IN
             /\ user_requests'[u] = Purge(EntryOf(user_requests, u), now)
             /\ \A t \in now..(now + WindowTicks) :
                   WouldAllow(user_requests'[u], t) = WouldAllow(EntryOf(user_requests, u), t)]_vars

\* a caller was rejected after time had passed: its list holds max_requests timestamps
\* and one of them leaves the window less than 20 seconds after the rejection
C25_Witness ==
    /\ lastCall.op = "check"
    /\ lastCall.result = "rejected"
    /\ lastCall.at > 0
    /\ Len(EntryOf(user_requests, lastCall.user)) = max_requests
    /\ \E i \in DOMAIN user_requests[lastCall.user] :
          user_requests[lastCall.user][i] + WindowTicks - lastCall.at < 20 * TicksPerSecond

\* C26: the retry_after of a rejection is at least 1 and at most the window length in
\* seconds, and a check made exactly retry_after seconds after the rejection, with no
\* allowed request of the caller in between, is allowed.
C26_RetryAfterSufficient ==
    (lastCall.op = "check" /\ lastCall.result = "rejected")
       => /\ lastCall.retry_after >= 1
          /\ lastCall.retry_after <= window_minutes * 60
          /\ WouldAllow(EntryOf(user_requests, lastCall.user),
                        lastCall.at + lastCall.retry_after * TicksPerSecond)

(***************************************************************************)
(* Properties of concurrent checks (SpecConc)                              *)
(***************************************************************************)
\* C2: of N concurrent check_rate_limit calls of one caller against a limit of M, at most
\* M are allowed, however the statements of the calls interleave.
C2_ConcurrentChecksBounded ==
    Cardinality({t \in Threads : tresult[t] = "allowed"}) <= max_requests

(***************************************************************************)
(* Properties of the device agents (SpecAgent)                             *)
(***************************************************************************)
\* C7: in every request handled by handle_request a rate-limit check for the caller comes
\* before the first generation call, and for an over-quota caller no generation call is made.
C7_RateCheckBeforeGeneration ==
    /\ \A i \in DOMAIN atrace :
          atrace[i] = "generate" => \E j \in 1..(i - 1) : atrace[j] = "check"
    /\ areq.over_quota => \A i \in DOMAIN atrace : atrace[i] /= "generate"

\* C9: when the store returned fewer than 3 candidates the final prompt names "Web Search"
\* as its data source, and when it returned 3 or more it names "Vector Database".
C9_FallbackProvenance ==
    (aprompt.built /\ astore.called /\ ~astore.raised) =>
        /\ astore.hits < 3 => aprompt.source = "Web Search"
        /\ astore.hits >= 3 => aprompt.source = "Vector Database"

\* the store returned two candidates and the final prompt was built from the live search
C9_Witness ==
    /\ aprompt.built
    /\ astore.called /\ ~astore.raised /\ astore.hits = 2
    /\ aprompt.source = "Web Search"
    /\ \E i \in DOMAIN atrace : atrace[i] = "search"

\* C10: when the store query raises, the request continues like one with too few
\* candidates: the live search and the final generation call are made and the store's
\* error does not reach the response.
C10_StoreFailureFallsBack ==
    (astore.raised /\ apc = "done") =>
        /\ \E i \in DOMAIN atrace : atrace[i] = "search"
        /\ aprompt.built
        /\ aresp.error /= "store_error"

\* the request's store query did not give the final prompt its data: no query was made, or
\* it returned fewer than 3 candidates
StoreInsufficient == ~astore.called \/ (~astore.raised /\ astore.hits < 3)

\* C11: whenever the store is insufficient and the live search fails or returns no hits,
\* the retrieved information placed in the final prompt is the marker "No results found.",
\* never an empty string or a null value.
C11_NoEvidenceMarker ==
    (aprompt.built /\ StoreInsufficient /\ asearch.called /\ asearch.hits = 0) =>
        aprompt.info = "No results found."

\* C12: within one request the store query comes before every live search, and a live
\* search is made only when the store was insufficient (fewer than 3 candidates, or no
\* store query); never in a request whose store query returned 3 or more candidates.
C12_StoreBeforeSearch ==
    \A i \in DOMAIN atrace : atrace[i] = "search" =>
        /\ \A j \in DOMAIN atrace : atrace[j] = "store_query" => j < i
        /\ StoreInsufficient
        /\ ~(astore.called /\ astore.hits >= 3)

\* a finished request whose store query returned too few candidates and was followed by a
\* live search
C12_Witness ==
    /\ apc = "done"
    /\ astore.called /\ astore.hits < 3
    /\ \E i, j \in DOMAIN atrace :
          i < j /\ atrace[i] = "store_query" /\ atrace[j] = "search"

(***************************************************************************)
(* Properties of the transport layer (SpecApp)                             *)
(***************************************************************************)
\* C8: a /chat request of an over-quota user ends in the 429 response carrying the
\* retry_after of the RateLimitExceeded raised, not in an ordinary successful reply.
C8_ChatRateLimitIs429 ==
    (http.endpoint = "chat" /\ http.rate_limited) =>
        /\ http.status = 429
        /\ http.retry_after >= 1

\* C23: a request passed to an agent endpoint is answered with the response mapping that
\* handle_request returned (HTTP 200); no exception of the agent reaches the endpoint.
C23_AgentEndpointWellFormed ==
    http.endpoint \in Agents => http.status = 200

(***************************************************************************)
(* Properties of _validate_response (SpecValidate)                         *)
(***************************************************************************)
\* the call has returned a value
ValidateReturned == vout.called /\ vout.raised = ""

\* C13: _validate_response(None) returns a response with status "failed", an empty
\* recommendations list and a non-empty error message.
C13_SentinelFails ==
    (vout.called /\ vin = PyNone) =>
        /\ vout.raised = ""
        /\ Get(vout.value, "status") = PyStr("failed")
        /\ Get(vout.value, "recommendations") = PyList(<<>>)
        /\ Get(vout.value, "error").t = "str"
        /\ Get(vout.value, "error").s /= ""

\* the validator was called with None and has returned
C13_Witness == ValidateReturned /\ vin = PyNone

\* the entries of the returned recommendations (none when that value is no list)
Survivors ==
    IF Get(vout.value, "recommendations").t = "list"
    THEN Get(vout.value, "recommendations").xs ELSE <<>>

\* C14: for an input mapping the returned status is "failed" if and only if the returned
\* recommendations are empty, and it is "ok" when at least one recommendation survived,
\* whatever status the input carried.
C14_FailedIffEmpty ==
    (ValidateReturned /\ vin.t = "dict") =>
        /\ Get(vout.value, "status") = PyStr("failed") <=> Len(Survivors) = 0
        /\ Len(Survivors) > 0 => Get(vout.value, "status") = PyStr("ok")

\* C15: every value _validate_response returns carries a status field.
C15_AlwaysStatus ==
    ValidateReturned => HasKey(vout.value, "status")

\* a mapping that carries at least one of the identifying fields
CarriesIdentifier(rec) ==
    /\ rec.t = "dict"
    /\ \E k \in {"name", "title", "build_name", "components"} : HasKey(rec, k)

\* C16: the returned recommendations are exactly the input entries that are mappings
\* carrying an identifying field, in their order, and every element of the returned
\* recommendations is such a mapping, also when the input's recommendations are no list.
C16_ExactFilter ==
    (ValidateReturned /\ vin.t = "dict" /\ HasKey(vout.value, "recommendations")) =>
        /\ Get(vout.value, "recommendations").t = "list"
        /\ Survivors = SelectSeq(IF Get(vin, "recommendations").t = "list"
                                 THEN Get(vin, "recommendations").xs ELSE <<>>,
                                 CarriesIdentifier)
        /\ \A i \in DOMAIN Survivors : CarriesIdentifier(Survivors[i])

C18_NeverRaises ==
    rparsed.called => rparsed.raised = ""

\* C19: extract, clean and safe_json_loads applied to the prose-wrapped object with a
\* trailing comma return {"a": 1}; applied to the garbage text they return the sentinel
\* None, and _validate_response of that sentinel has status "failed" and no recommendations.
C19_RecoverExamples ==
    /\ rpc \in {"parsed", "done"} /\ rtext = ProseWrapped
          => rparsed = Called(Returned(PyDict(<<Item("a", PyInt(1))>>)))
    /\ rpc \in {"parsed", "done"} /\ rtext = Garbage
          => rparsed = Called(Returned(PyNone))
    /\ rpc = "done" /\ rtext = Garbage
          => /\ rvalid.raised = ""
             /\ Get(rvalid.value, "status") = PyStr("failed")
             /\ Get(rvalid.value, "recommendations") = PyList(<<>>)

\* the garbage text has gone through the four stages
C19_Witness ==
    rpc = "done" /\ rtext = Garbage /\ rparsed.called /\ rvalid.called

\* C20: for a generator output that is a strict-valid JSON object, extract, clean and
\* safe_json_loads return the value of the strict parse of that output.
C20_StrictValidUnchanged ==
    rpc \in {"parsed", "done"} /\ JsonLoads(rtext).kind = "ok" /\ JsonLoads(rtext).value.t = "dict"
        => rparsed = Called(Returned(JsonLoads(rtext).value))

\* C21: _clean_json_text is idempotent: cleaning a cleaned text changes nothing.
C21_CleanIdempotent ==
    rpc = "cleaned" => CleanJsonText(rcleaned) = rcleaned

\* the first span of the text that bracket matching finds balanced: from the first { or [
\* to the bracket that closes it, brackets inside string literals not counted ("" if none)
BalancedSpan(text) ==
    LET start == MinPos({k \in 1..Len(text) : At(text, k) \in {"{", "["}})
        RECURSIVE Close(_, _, _)
        Close(i, depth, inString) ==
            IF i > Len(text) THEN 0
            ELSE IF inString
            THEN IF At(text, i) = "\\" THEN Close(i + 2, depth, TRUE)
                 ELSE Close(i + 1, depth, At(text, i) /= "\"")
            ELSE IF At(text, i) = "\"" THEN Close(i + 1, depth, TRUE)
            ELSE IF At(text, i) \in {"{", "["} THEN Close(i + 1, depth + 1, FALSE)
            ELSE IF At(text, i) \in {"}", "]"}
            THEN IF depth = 1 THEN i ELSE Close(i + 1, depth - 1, FALSE)
            ELSE Close(i + 1, depth, FALSE)
    IN  IF start = 0 \/ Close(start, 0, FALSE) = 0 THEN ""
        ELSE SubSeq(text, start, Close(start, 0, FALSE))

\* C22: on a text without a fenced block that holds a balanced {...} or [...] span,
\* _extract_json_from_markdown returns exactly the first balanced span.
C22_FirstBalancedSpan ==
    /\ rpc = "extracted"
    /\ \A k \in 1..Len(rtext) : At(rtext, k) /= Backtick
    /\ BalancedSpan(rtext) /= ""
    => rcleaned = BalancedSpan(rtext)

(***************************************************************************)
(* Properties of one generate call (SpecGenerate)                          *)
(***************************************************************************)
\* C24: generate invokes the main model first and the backup model only after the main
\* model raised or returned no content; no model is invoked twice in one call; when both
\* fail the call returns the empty string; the only exception that leaves generate is
\* RateLimitExceeded.
C24_MainThenBackupOnce ==
    /\ Len(gcalls) <= 2
    /\ Len(gcalls) >= 1 => gcalls[1].model = "main"
    /\ Len(gcalls) = 2 => gcalls[2].model = "backup" /\ gcalls[1].outcome /= "content"
    /\ (gpc = "done" /\ Len(gcalls) = 2 /\ gcalls[2].outcome /= "content")
          => gresult = Called(Returned(PyStr("")))
    /\ gresult.raised \in {"", "RateLimitExceeded"}

\* both models were invoked and both failed, and the call has returned
C24_Witness ==
    /\ gpc = "done"
    /\ Len(gcalls) = 2
    /\ gcalls[1].outcome = "raised"
    /\ gcalls[2].outcome = "raised"
    /\ gresult = Called(Returned(PyStr("")))

(***************************************************************************)
(* Properties of the chat memory (SpecMemory, SpecApp)                     *)
(***************************************************************************)
\* C27: after any sequence of add_user_message, add_ai_message and clear_memory the list
\* holds at most max_messages messages, and they are the most recent messages added since
\* the last clear, in the order they were added.
C27_MostRecentMessages ==
    \A u \in Users :
        /\ Len(memory[u]) <= MaxMessages
        /\ Len(memory[u]) = IF Len(madded[u]) < MaxMessages THEN Len(madded[u]) ELSE MaxMessages
        /\ memory[u] = SubSeq(madded[u], Len(madded[u]) - Len(memory[u]) + 1, Len(madded[u]))

\* more than max_messages messages were added since the last clear and the oldest of them
\* is no longer the first of the list
C27_Witness ==
    \E u \in Users :
        /\ Len(madded[u]) > MaxMessages
        /\ Len(memory[u]) = MaxMessages
        /\ memory[u][1] /= madded[u][1]

\* C28: a get_response call whose generation raises (a rate-limit rejection included)
\* leaves the user's memory exactly as it was before the call, also when the memory
\* already held max_messages messages.
C28_FailedChatKeepsMemory ==
    [][(http'.endpoint = "chat" /\ http'.body = "apology") => memory' = memory]_vars

(***************************************************************************)
(* Properties of the user store and of authentication (SpecUsers)          *)
(***************************************************************************)
\* every record is stored under its own username, and no two records share an id or an
\* email address
UniqueUsers ==
    /\ \A a \in DOMAIN users_db : users_db[a].username = a
    /\ \A a, b \in DOMAIN users_db :
          a /= b => /\ users_db[a].id /= users_db[b].id
                    /\ users_db[a].email /= users_db[b].email

\* C29: after any sequence of create_user and delete_user calls no two users share a
\* username, an email address or an id, and a create_user call that raises leaves the
\* table and the id counter unchanged.
C29_UsersUnique ==
    [][/\ UniqueUsers'
       /\ (ulast'.op = "create_user" /\ ulast'.raised /= "")
             => (users_db' = users_db /\ user_id_counter' = user_id_counter)]_vars

\* a create_user call was refused for its email address after an account had been
\* created and deleted and another created
C29_Witness ==
    /\ ulast.op = "create_user"
    /\ ulast.raised = "Email already exists"
    /\ Cardinality(DOMAIN users_db) = 1
    /\ user_id_counter = 3

\* C30: get_current_user never returns a user whose id differs from the user_id of the
\* token presented: a token issued for an account that was deleted is not accepted for a
\* later account of the same username.
C30_TokenBoundToAccount ==
    (ulast.op = "get_current_user" /\ ulast.status = 200) => ulast.id = ulast.token_user_id

====
